---------------------------- MODULE Spec2Model ----------------------------
(***************************************************************************)
(* A model of the device-emulation core of cloud-hypervisor:               *)
(*   - the virtio split queue        (src/vm-virtio/src/queue.rs)          *)
(*   - the I/O APIC                  (src/devices/src/ioapic.rs)           *)
(*                                                                         *)
(* Guest memory is a byte array over the mapped regions; every ring field  *)
(* and descriptor is read and written through the little-endian encoding   *)
(* at the byte offsets the code computes.  64-bit redirection-table        *)
(* entries are modelled as sets of bit positions (TLC integers are 32      *)
(* bits wide), on which the code's and/or/shift are exact.                 *)
(***************************************************************************)
EXTENDS Integers, Sequences, FiniteSets, TLC

VARIABLES
    mem,        \* guest memory: the non-zero bytes, by address
    q,          \* the Queue
    iter,       \* the live AvailIter (a record, tag "none" when there is none)
    chain,      \* the live DescriptorChain (a record, tag "none" when none)
    last,       \* the last operation: its name, arguments and result
    panicked,   \* TRUE once an operation has panicked (unwrap, division by 0)
    ops,        \* number of operations performed (bounds the exploration)
    ioapic,     \* the Ioapic: id, reg_sel and the 24 redirection-table entries
    cpu,        \* the vCPU state the instruction emulator works on: registers and ip
    ghost       \* history the claims refer to (earlier calls); never read by the code

vars == <<mem, q, iter, chain, last, panicked, ops, ioapic, cpu, ghost>>

---------------------------------------------------------------------------
(* Bounds of the exploration.                                              *)

\* the max_size the device offers (Queue::new(max_size))
MaxSize == 4
\* number of device operations explored from each initial state
MaxOps == 2
\* next() calls modelled per iteration of the available ring
MaxReads == 3
\* operations on the I/O APIC
MaxIoOps == 5
\* instructions emulated in a row
MaxInsns == 2
\* number of entries of the descriptor table the chains are built over
TableN == 3

---------------------------------------------------------------------------
(* Machine integers.                                                       *)

U16 == 65536

\* Wrapping<u16> addition and subtraction
WrapAdd16(a, b) == (a + b) % U16
WrapSub16(a, b) == (a - b + U16) % U16

\* Option<T>: None is the empty sequence, Some(x) the one-element sequence
None == <<>>
Some(x) == <<x>>
IsSome(o) == Len(o) = 1
Unwrap(o) == o[1]

\* A value that stands for every number of 2^30 or more: a field whose bytes
\* encode such a number reads as Huge.  It lies beyond every mapped address
\* and every 16-bit quantity, which is all the code compares it with.
Huge == 1024 * 1024 * 1024

Min(a, b) == IF a < b THEN a ELSE b

---------------------------------------------------------------------------
(* Guest memory (vm_memory::GuestMemoryMmap): two mapped regions with a    *)
(* hole between them.  The layout is derived from MaxSize so that a queue  *)
(* of max_size entries and one indirect table fit into region 0.           *)

AlignUp(a, n) == ((a + n - 1) \div n) * n

DescBase  == AlignUp(0, 16)
AvailBase == 16 * MaxSize
UsedBase  == AlignUp(AvailBase + 6 + 2 * MaxSize, 4)
IndBase   == AlignUp(UsedBase + 6 + 8 * MaxSize, 16)
R0End     == IndBase + 16 * MaxSize
R1Start   == R0End + 32
R1End     == R1Start + 32

Regions == << [start |-> 0, end |-> R0End], [start |-> R1Start, end |-> R1End] >>

MappedAddrs == UNION { (Regions[i].start)..(Regions[i].end - 1) : i \in 1..Len(Regions) }

\* GuestMemory::address_in_range
AddressInRange(a) == \E i \in 1..Len(Regions) : a >= Regions[i].start /\ a < Regions[i].end

\* GuestMemory::checked_offset: the end address alone is looked up
CheckedOffset(base, off) ==
    IF AddressInRange(base + off) THEN Some(base + off) ELSE None

\* the n bytes at a lie in one region: what read_obj, write_obj and get_slice need
RangeOk(a, n) == \E i \in 1..Len(Regions) : a >= Regions[i].start /\ a + n <= Regions[i].end

Pow256(k) == IF k = 0 THEN 1 ELSE IF k = 1 THEN 256 ELSE IF k = 2 THEN 65536 ELSE 16777216

\* byte k of the little-endian encoding of v (v < 2^31)
ByteOf(v, k) == IF k > 3 THEN 0 ELSE (v \div Pow256(k)) % 256

\* Guest memory holds a byte at every mapped address; the model keeps the
\* non-zero ones (a function from their addresses), the others read as 0.
MemByte(m, a) == IF a \in DOMAIN m THEN m[a] ELSE 0

\* Bytes::write_obj of an n-byte little-endian integer
WriteLE(m, a, n, v) ==
    LET new(x) == IF x >= a /\ x < a + n THEN ByteOf(v, x - a) ELSE MemByte(m, x)
        dom == {x \in (DOMAIN m) \cup (a..(a + n - 1)) : new(x) # 0}
    IN  [x \in dom |-> new(x)]

\* Bytes::read_obj of an n-byte little-endian integer
ReadLE(m, a, n) ==
    IF \/ \E k \in 4..(n - 1) : MemByte(m, a + k) # 0
       \/ (n >= 4 /\ MemByte(m, a + 3) >= 64)
    THEN Huge
    ELSE LET b(k) == IF k < n THEN MemByte(m, a + k) * Pow256(k) ELSE 0
         IN  b(0) + b(1) + b(2) + b(3)

ReadU16(m, a) == ReadLE(m, a, 2)
ReadU32(m, a) == ReadLE(m, a, 4)
ReadU64(m, a) == ReadLE(m, a, 8)

ZeroMem == [a \in {} |-> 0]

---------------------------------------------------------------------------
(* Queue.                                                                  *)

\* Queue::new
NewQueue(max_size) ==
    [ max_size |-> max_size, size |-> max_size, ready |-> FALSE, vector |-> 0,
      desc_table |-> 0, avail_ring |-> 0, used_ring |-> 0,
      next_avail |-> 0, next_used |-> 0, iommu |-> FALSE,
      event_idx |-> FALSE, signalled_used |-> None ]

\* Queue::actual_size
ActualSize(qq) == Min(qq.size, qq.max_size)

NoIter == [tag |-> "none"]
NoChain == [tag |-> "none"]
NoGhost == [tag |-> "none"]

\* no vCPU is being emulated
NoCpu == [tag |-> "none"]

NUM_IOAPIC_PINS == 24

\* Ioapic::new. A u32 or u64 is the set of the positions of its 1 bits.
NewIoapic == [id |-> {}, reg_sel |-> {}, reg_entries |-> [i \in 0..(NUM_IOAPIC_PINS - 1) |-> {}]]

\* u16 bitwise and, as used by is_valid's power-of-two test
RECURSIVE BitAnd(_, _)
BitAnd(a, b) ==
    IF a = 0 \/ b = 0 THEN 0
    ELSE (a % 2) * (b % 2) + 2 * BitAnd(a \div 2, b \div 2)

\* (mutant) the slot taken modulo max_size instead of the actual size
UsedElemAddr_MaxSize(qq) == qq.used_ring + 4 + (qq.next_used % qq.max_size) * 8

\* the used-ring slot add_used fills
UsedElemAddr(qq) == qq.used_ring + 4 + (qq.next_used % ActualSize(qq)) * 8

\* add_used once the index has passed the bounds test: the queue, the
\* memory, the value returned and whether the call panicked (a
\* write_obj(..).unwrap() on an address outside memory), with the writes made
\* before the panic kept
AddUsedWrite(qq, m, desc_index, len) ==
    LET used_elem == UsedElemAddr(qq)
        m1 == WriteLE(m, used_elem, 4, desc_index)
        m2 == WriteLE(m1, used_elem + 4, 4, len)
        q1 == [qq EXCEPT !.next_used = WrapAdd16(@, 1)]
        m3 == WriteLE(m2, qq.used_ring + 2, 2, q1.next_used)
    IN  IF ~RangeOk(used_elem, 4)
        THEN [q |-> qq, mem |-> m, ret |-> None, panic |-> TRUE]
        ELSE IF ~RangeOk(used_elem + 4, 4)
        THEN [q |-> qq, mem |-> m1, ret |-> None, panic |-> TRUE]
        ELSE IF ~RangeOk(qq.used_ring + 2, 2)
        THEN [q |-> q1, mem |-> m2, ret |-> None, panic |-> TRUE]
        ELSE [q |-> q1, mem |-> m3, ret |-> Some(q1.next_used), panic |-> FALSE]

\* (mutant) the bounds test compares with max_size, not the actual size
AddUsedResult_MaxSize(qq, m, desc_index, len) ==
    IF desc_index >= qq.max_size \/ ActualSize(qq) = 0
    THEN [q |-> qq, mem |-> m, ret |-> None, panic |-> FALSE]
    ELSE AddUsedWrite(qq, m, desc_index, len)

\* Queue::add_used
AddUsedResult(qq, m, desc_index, len) ==
    IF desc_index >= ActualSize(qq)
    THEN [q |-> qq, mem |-> m, ret |-> None, panic |-> FALSE]
    ELSE AddUsedWrite(qq, m, desc_index, len)

---------------------------------------------------------------------------
(* Inputs.                                                                 *)

\* sizes the driver may select: none, every size up to max_size, one above
DriverSizes == 0..MaxSize \cup {2 * MaxSize}
\* values of the 16-bit cursors from which the exploration starts
Cursors == {0, U16 - 1}
\* descriptor indexes and lengths handed to add_used
DescIdxs == 0..MaxSize
Lens == {0, 4097}

\* a queue the driver has configured on the standard layout
ConfiguredQueue(size, avail, used) ==
    [NewQueue(MaxSize) EXCEPT !.size = size, !.ready = TRUE,
        !.desc_table = DescBase, !.avail_ring = avail, !.used_ring = used]

---------------------------------------------------------------------------
(* The used ring: add_used.                                                *)

InitUsed ==
    /\ \E size \in DriverSizes, nu \in Cursors, used \in {UsedBase, R0End - 8} :
          /\ q = [ConfiguredQueue(size, AvailBase, used) EXCEPT !.next_used = nu]
          /\ mem = WriteLE(ZeroMem, used + 2, 2, nu)
    /\ iter = NoIter
    /\ chain = NoChain
    /\ last = [op |-> "init"]
    /\ panicked = FALSE
    /\ ioapic = NewIoapic
    /\ cpu = NoCpu
    /\ ops = 0
    /\ ghost = NoGhost

AddUsed ==
    /\ ~panicked
    /\ ops < MaxOps
    /\ iter.tag = "none"
    /\ \E d \in DescIdxs, l \in Lens :
          LET r == AddUsedResult(q, mem, d, l)
          IN  /\ q' = r.q
              /\ mem' = r.mem
              /\ panicked' = r.panic
              /\ last' = [op |-> "add_used", desc_index |-> d, len |-> l,
                          ret |-> r.ret, panic |-> r.panic]
    /\ ops' = ops + 1
    /\ UNCHANGED <<cpu, ioapic, iter, chain, ghost>>

NextUsed == AddUsed

SpecUsed == InitUsed /\ [][NextUsed]_vars

---------------------------------------------------------------------------
(* Claims on add_used.                                                     *)

IsPowerOfTwo(n) == \E k \in 0..15 : n = 2^k

SizeIsValid(qq) == IsPowerOfTwo(qq.size) /\ qq.size <= qq.max_size

\* C1: on a queue whose size is a valid power of two, a successful
\* add_used(desc_index, len) with desc_index < size writes (desc_index, len)
\* into the slot at used_ring + 4 + (old next_used mod size) * 8, increments
\* next_used by 1 modulo 2^16, stores the new next_used in the idx field at
\* used_ring + 2 and returns it; also across the 65535 -> 0 wrap.
C1_AddUsedPublishes ==
    [][ ( /\ last'.op = "add_used"
          /\ IsSome(last'.ret)
          /\ SizeIsValid(q)
          /\ last'.desc_index < q.size )
        => LET slot == q.used_ring + 4 + (q.next_used % q.size) * 8
           IN  /\ ReadU32(mem', slot) = last'.desc_index
               /\ ReadU32(mem', slot + 4) = last'.len
               /\ q'.next_used = (q.next_used + 1) % U16
               /\ ReadU16(mem', q.used_ring + 2) = q'.next_used
               /\ last'.ret = Some(q'.next_used)
               /\ q'.used_ring = q.used_ring /\ q'.size = q.size ]_vars

\* C1 witness: a successful add_used has taken next_used across the wrap
\* into slot (65535 mod size) of a queue of more than one entry
C1_Witness ==
    /\ last.op = "add_used"
    /\ IsSome(last.ret)
    /\ SizeIsValid(q) /\ q.size > 1
    /\ q.next_used = 0
    /\ last.len = 4097

\* C6: add_used with desc_index >= the actual size is rejected: it returns
\* nothing and leaves next_used, the used ring's idx and every slot (all of
\* guest memory and the queue) unchanged.
C6_AddUsedRejects ==
    [][ (last'.op = "add_used" /\ last'.desc_index >= ActualSize(q))
        => (last'.ret = None /\ ~panicked' /\ q' = q /\ mem' = mem) ]_vars

\* C6 witness: an out-of-bounds index was rejected on a queue that already
\* holds a used element
C6_Witness ==
    /\ last.op = "add_used"
    /\ last.desc_index >= ActualSize(q)
    /\ ActualSize(q) > 0
    /\ last.ret = None
    /\ ~panicked
    /\ ops = 2
    /\ ReadU16(mem, q.used_ring + 2) = q.next_used

---------------------------------------------------------------------------
(* Notification suppression: set_event_idx, get_used_event,                *)
(* needs_notification.                                                     *)

\* Queue::set_event_idx
SetEventIdxResult(qq, enabled) ==
    [qq EXCEPT !.signalled_used = None, !.event_idx = enabled]

\* address of the used_event field: the offset is computed in u16
UsedEventOffset(qq) == (4 + ActualSize(qq) * 2) % U16

\* Queue::get_used_event
GetUsedEvent(qq, m) ==
    LET a == CheckedOffset(qq.avail_ring, UsedEventOffset(qq))
    IN  IF ~IsSome(a) THEN None
        ELSE IF ~RangeOk(Unwrap(a), 2) THEN None
        ELSE Some(ReadU16(m, Unwrap(a)))

\* (mutant) the comparison is strict
Suppressed_Strict(used_idx, used_event, old_idx) ==
    WrapSub16(WrapSub16(used_idx, used_event), 1) > WrapSub16(used_idx, old_idx)

\* the test of needs_notification, on Wrapping<u16>
Suppressed(used_idx, used_event, old_idx) ==
    WrapSub16(WrapSub16(used_idx, used_event), 1) >= WrapSub16(used_idx, old_idx)

\* (mutant) used_idx is recorded only when the call asks for a notification
NeedsNotificationResult_RecordsOnNotify(qq, m, used_idx) ==
    IF ~qq.event_idx
    THEN [q |-> qq, ret |-> TRUE]
    ELSE LET used_event == GetUsedEvent(qq, m)
             notify == ~( /\ IsSome(qq.signalled_used)
                          /\ IsSome(used_event)
                          /\ Suppressed(used_idx, Unwrap(used_event),
                                        Unwrap(qq.signalled_used)) )
         IN  [q |-> IF notify THEN [qq EXCEPT !.signalled_used = Some(used_idx)] ELSE qq,
              ret |-> notify]

\* Queue::needs_notification: the queue and the value returned
NeedsNotificationResult(qq, m, used_idx) ==
    IF ~qq.event_idx
    THEN [q |-> qq, ret |-> TRUE]
    ELSE LET used_event == GetUsedEvent(qq, m)
             notify == ~( /\ IsSome(qq.signalled_used)
                          /\ IsSome(used_event)
                          /\ Suppressed(used_idx, Unwrap(used_event),
                                        Unwrap(qq.signalled_used)) )
         IN  [q |-> [qq EXCEPT !.signalled_used = Some(used_idx)], ret |-> notify]

\* values of used_idx handed to needs_notification and of used_event the
\* driver stores, on both sides of the 16-bit wrap
UsedIdxs == {0, 1, 2, U16 - 1}
UsedEvents == {0, 1, U16 - 1}

\* available-ring bases: the standard one, one whose used_event field starts
\* on the last mapped byte, one whose used_event field lies in the hole
NotifyAvailBases(size) == {AvailBase, R0End - 5 - 2 * size, R0End - 4 - 2 * size}

InitNotify ==
    /\ \E size \in {1, MaxSize} :
       \E avail \in NotifyAvailBases(size) :
          q = ConfiguredQueue(size, avail, UsedBase)
    /\ mem = ZeroMem
    /\ iter = NoIter
    /\ chain = NoChain
    /\ last = [op |-> "init"]
    /\ panicked = FALSE
    /\ ioapic = NewIoapic
    /\ cpu = NoCpu
    /\ ops = 0
    /\ ghost = [prev |-> None, rec |-> None]

SetEventIdx ==
    /\ ~panicked
    /\ iter.tag = "none"
    /\ \E enabled \in BOOLEAN :
          /\ q' = SetEventIdxResult(q, enabled)
          /\ last' = [op |-> "set_event_idx", enabled |-> enabled]
    /\ ghost' = [ghost EXCEPT !.rec = None]
    /\ UNCHANGED <<cpu, ioapic, mem, iter, chain, panicked, ops>>

\* the driver stores used_event behind the available ring's last slot
DriverWriteUsedEvent ==
    /\ ~panicked
    /\ RangeOk(q.avail_ring + 4 + 2 * q.size, 2)
    /\ \E v \in UsedEvents :
          /\ mem' = WriteLE(mem, q.avail_ring + 4 + 2 * q.size, 2, v)
          /\ last' = [op |-> "driver_write_used_event", value |-> v]
    /\ UNCHANGED <<cpu, ioapic, q, iter, chain, panicked, ops, ghost>>

NeedsNotification ==
    /\ ~panicked
    /\ iter.tag = "none"
    /\ \E used_idx \in UsedIdxs :
          LET r == NeedsNotificationResult(q, mem, used_idx)
          IN  /\ q' = r.q
              /\ last' = [op |-> "needs_notification", used_idx |-> used_idx,
                          ret |-> r.ret]
              /\ ghost' = [prev |-> Some(used_idx),
                           rec |-> IF q.event_idx THEN Some(used_idx) ELSE ghost.rec]
    /\ UNCHANGED <<cpu, ioapic, mem, iter, chain, panicked, ops>>

NextNotify == SetEventIdx \/ DriverWriteUsedEvent \/ NeedsNotification

SpecNotify == InitNotify /\ [][NextNotify]_vars

\* the used_event the guest stored in the available ring, when it can be read
UsedEventAddr(qq) == qq.avail_ring + 4 + 2 * ActualSize(qq)
UsedEventReadable(qq) == RangeOk(UsedEventAddr(qq), 2)

\* C7 (as claimed): on every call of needs_notification(used_idx), without
\* EVENT_IDX the result is true, and with EVENT_IDX the notification is
\* suppressed iff (used_idx - used_event - 1) >= (used_idx - signalled_used)
\* in wrapping 16-bit arithmetic, used_event read from the available ring and
\* signalled_used the used_idx of the previous call.
C7_AsClaimed ==
    [][ last'.op = "needs_notification"
        => IF ~q.event_idx
           THEN last'.ret = TRUE
           ELSE (IsSome(ghost.prev) /\ UsedEventReadable(q))
                => ( last'.ret = FALSE
                     <=> Suppressed(last'.used_idx, ReadU16(mem, UsedEventAddr(q)),
                                    Unwrap(ghost.prev)) ) ]_vars

\* C7 (amended): without EVENT_IDX the result is true; with EVENT_IDX the
\* notification is suppressed iff a call made since EVENT_IDX was last set has
\* recorded signalled_used, used_event can be read, and
\* (used_idx - used_event - 1) >= (used_idx - signalled_used) in wrapping
\* 16-bit arithmetic; otherwise the result is true.
C7_NeedsNotification ==
    [][ last'.op = "needs_notification"
        => IF ~q.event_idx
           THEN last'.ret = TRUE
           ELSE ( last'.ret = FALSE
                  <=> /\ IsSome(ghost.rec)
                      /\ UsedEventReadable(q)
                      /\ WrapSub16(WrapSub16(last'.used_idx,
                                             ReadU16(mem, UsedEventAddr(q))), 1)
                           >= WrapSub16(last'.used_idx, Unwrap(ghost.rec)) ) ]_vars

\* C7 witness: with EVENT_IDX negotiated, a call was suppressed although
\* used_idx had wrapped past the recorded signalled_used
C7_Witness ==
    /\ last.op = "needs_notification"
    /\ q.event_idx
    /\ last.ret = FALSE
    /\ last.used_idx = 0
    /\ ReadU16(mem, UsedEventAddr(q)) = 1

---------------------------------------------------------------------------
(* Descriptors and descriptor chains.                                      *)

VIRTQ_DESC_F_NEXT == 1
VIRTQ_DESC_F_WRITE == 2
VIRTQ_DESC_F_INDIRECT == 4

\* flags & bit # 0, for a single-bit mask
HasFlag(flags, bit) == (flags \div bit) % 2 = 1

\* Descriptor, decoded from its 16 bytes: addr u64 at 0, len u32 at 8,
\* flags u16 at 12, next u16 at 14
ReadDesc(m, a) ==
    [ addr  |-> ReadU64(m, a),
      len   |-> ReadU32(m, a + 8),
      flags |-> ReadU16(m, a + 12),
      next  |-> ReadU16(m, a + 14) ]

\* VirtqDesc::set: the driver stores a descriptor
WriteDesc(m, a, d) ==
    WriteLE(WriteLE(WriteLE(WriteLE(m, a, 8, d.addr), a + 8, 4, d.len),
                    a + 12, 2, d.flags), a + 14, 2, d.next)

\* The IOMMU remap hook: bus addresses of the window above guest memory map
\* onto region 0, every other address is an error
IovaBase == 2 * R1End
IommuTranslate(a) ==
    IF a >= IovaBase /\ a < IovaBase + R0End THEN Some(a - IovaBase) ELSE None

\* DescriptorChain::has_next
ChainHasNext(c) == HasFlag(c.desc.flags, VIRTQ_DESC_F_NEXT) /\ c.ttl > 1

\* DescriptorChain::is_valid
ChainIsValid(c) ==
    ~( \/ ~IsSome(CheckedOffset(c.desc.addr, c.desc.len))
       \/ (ChainHasNext(c) /\ c.desc.next >= c.table_size) )

\* DescriptorChain::read_new: Some(chain) or None, and whether the remap
\* hook's unwrap panicked
ReadNew(m, desc_table, table_size, ttl, index, iommu) ==
    IF index >= table_size
    THEN [ret |-> None, panic |-> FALSE]
    ELSE IF ~RangeOk(desc_table, 16 * table_size)
    THEN [ret |-> None, panic |-> FALSE]
    ELSE LET raw == ReadDesc(m, desc_table + 16 * index)
             tr == IommuTranslate(raw.addr)
             desc == IF iommu /\ IsSome(tr) THEN [raw EXCEPT !.addr = Unwrap(tr)]
                     ELSE raw
             c == [ tag |-> "chain", desc_table |-> desc_table,
                    table_size |-> table_size, ttl |-> ttl, index |-> index,
                    desc |-> desc, iommu |-> iommu ]
         IN  IF iommu /\ ~IsSome(tr)
             THEN [ret |-> None, panic |-> TRUE]
             ELSE IF ChainIsValid(c)
             THEN [ret |-> Some(c), panic |-> FALSE]
             ELSE [ret |-> None, panic |-> FALSE]

\* DescriptorChain::checked_new
CheckedNew(m, dtable_addr, table_size, index, iommu) ==
    ReadNew(m, dtable_addr, table_size, table_size, index, iommu)

\* (mutant) next() forgets to decrement the time-to-live
ChainNextResult_NoTtlDecrement(m, c) ==
    IF c.ttl = 0
    THEN [chain |-> c, ret |-> None, panic |-> FALSE]
    ELSE IF ~ChainHasNext(c)
    THEN [chain |-> [c EXCEPT !.ttl = 0], ret |-> Some(c.desc), panic |-> FALSE]
    ELSE IF ~RangeOk(c.desc_table, 16 * c.table_size)
    THEN [chain |-> c, ret |-> None, panic |-> FALSE]
    ELSE IF c.desc.next >= c.table_size
    THEN [chain |-> c, ret |-> None, panic |-> TRUE]
    ELSE [ chain |-> [c EXCEPT !.desc = ReadDesc(m, c.desc_table + 16 * c.desc.next)],
           ret |-> Some(c.desc), panic |-> FALSE ]

\* (mutant) next() stops one link early: the last descriptor is not yielded
ChainNextResult_StopsEarly(m, c) ==
    IF c.ttl = 0
    THEN [chain |-> c, ret |-> None, panic |-> FALSE]
    ELSE IF ~ChainHasNext(c)
    THEN [chain |-> [c EXCEPT !.ttl = 0], ret |-> None, panic |-> FALSE]
    ELSE IF ~RangeOk(c.desc_table, 16 * c.table_size)
    THEN [chain |-> c, ret |-> None, panic |-> FALSE]
    ELSE IF c.desc.next >= c.table_size
    THEN [chain |-> c, ret |-> None, panic |-> TRUE]
    ELSE [ chain |-> [c EXCEPT !.desc = ReadDesc(m, c.desc_table + 16 * c.desc.next),
                               !.ttl = c.ttl - 1],
           ret |-> Some(c.desc), panic |-> FALSE ]

\* Iterator for DescriptorChain, next(): the chain afterwards, the descriptor
\* yielded (or None) and whether the array load panicked (index out of the
\* table)
ChainNextResult(m, c) ==
    IF c.ttl = 0
    THEN [chain |-> c, ret |-> None, panic |-> FALSE]
    ELSE IF ~ChainHasNext(c)
    THEN [chain |-> [c EXCEPT !.ttl = 0], ret |-> Some(c.desc), panic |-> FALSE]
    ELSE IF ~RangeOk(c.desc_table, 16 * c.table_size)
    THEN [chain |-> c, ret |-> None, panic |-> FALSE]
    ELSE IF c.desc.next >= c.table_size
    THEN [chain |-> c, ret |-> None, panic |-> TRUE]
    ELSE [ chain |-> [c EXCEPT !.desc = ReadDesc(m, c.desc_table + 16 * c.desc.next),
                               !.ttl = c.ttl - 1],
           ret |-> Some(c.desc), panic |-> FALSE ]

\* DescriptorChain::new_from_indirect: ret is Some(chain) for Ok, err names
\* the Error otherwise; panic is the unwrap of the remap hook or of the
\* conversion of len / 16 to u16
NewFromIndirect(m, c) ==
    IF ~HasFlag(c.desc.flags, VIRTQ_DESC_F_INDIRECT)
    THEN [ret |-> None, err |-> "InvalidIndirectDescriptor", panic |-> FALSE]
    ELSE IF ~IsSome(CheckedOffset(c.desc.addr, 16))
    THEN [ret |-> None, err |-> "GuestMemoryError", panic |-> FALSE]
    ELSE IF ~RangeOk(c.desc.addr, 16)
    THEN [ret |-> None, err |-> "GuestMemoryError", panic |-> FALSE]
    ELSE LET raw == ReadDesc(m, c.desc.addr)
             tr == IommuTranslate(raw.addr)
             desc == IF c.iommu /\ IsSome(tr) THEN [raw EXCEPT !.addr = Unwrap(tr)]
                     ELSE raw
             n == c.desc.len \div 16
             new == [ tag |-> "chain", desc_table |-> c.desc.addr,
                      table_size |-> n, ttl |-> n, index |-> 0,
                      desc |-> desc, iommu |-> c.iommu ]
         IN  IF (c.iommu /\ ~IsSome(tr)) \/ n >= U16
             THEN [ret |-> None, err |-> "panic", panic |-> TRUE]
             ELSE IF ~ChainIsValid(new)
             THEN [ret |-> None, err |-> "InvalidChain", panic |-> FALSE]
             ELSE [ret |-> Some(new), err |-> "", panic |-> FALSE]

---------------------------------------------------------------------------
(* Descriptor chains over every content of a table of TableN entries.      *)

\* a buffer inside guest memory, and one that ends in the hole
GoodBuf == [addr |-> UsedBase, len |-> 16]
BadBuf == [addr |-> R0End, len |-> 16]

\* what the driver may store in one table entry: a good buffer without NEXT
\* or linked to any index up to TableN (one past the table), or a bad buffer
EntryChoices ==
    { [addr |-> GoodBuf.addr, len |-> GoodBuf.len, flags |-> 0, next |-> 0],
      [addr |-> BadBuf.addr, len |-> BadBuf.len, flags |-> 0, next |-> 0] }
    \cup { [addr |-> GoodBuf.addr, len |-> GoodBuf.len,
            flags |-> VIRTQ_DESC_F_NEXT, next |-> n] : n \in 0..TableN }

\* memory holding table entries t[0..TableN-1] at DescBase, and a two-entry
\* chain 0 -> 1 in the last 32 bytes of region 0
TailBase == R0End - 32
RECURSIVE WriteTable(_, _, _, _)
WriteTable(m, a, t, i) ==
    IF i = TableN THEN m
    ELSE WriteTable(WriteDesc(m, a + 16 * i, t[i]), a, t, i + 1)
TableMem(t) ==
    WriteDesc(
      WriteDesc(WriteTable(ZeroMem, DescBase, t, 0), TailBase,
                [addr |-> GoodBuf.addr, len |-> GoodBuf.len,
                 flags |-> VIRTQ_DESC_F_NEXT, next |-> 1]),
      TailBase + 16,
      [addr |-> GoodBuf.addr, len |-> GoodBuf.len, flags |-> 0, next |-> 0])

\* indirect descriptors a chain may stand on: the table at DescBase in full,
\* without its last entry, from its second entry, or empty; the tail table,
\* read as five entries, three of which lie beyond region 0; a table whose
\* first entry is outside memory; a table of 65536 entries (len is a u32);
\* and a descriptor without INDIRECT
ParentDescs ==
    { [addr |-> DescBase, len |-> 16 * TableN, flags |-> VIRTQ_DESC_F_INDIRECT, next |-> 0],
      [addr |-> DescBase, len |-> 16 * (TableN - 1) + 8, flags |-> VIRTQ_DESC_F_INDIRECT, next |-> 0],
      [addr |-> DescBase + 16, len |-> 16 * (TableN - 1), flags |-> VIRTQ_DESC_F_INDIRECT, next |-> 0],
      [addr |-> DescBase, len |-> 0, flags |-> VIRTQ_DESC_F_INDIRECT, next |-> 0],
      [addr |-> TailBase, len |-> 80, flags |-> VIRTQ_DESC_F_INDIRECT, next |-> 0],
      [addr |-> R0End - 8, len |-> 48, flags |-> VIRTQ_DESC_F_INDIRECT, next |-> 0],
      [addr |-> DescBase, len |-> 16 * U16, flags |-> VIRTQ_DESC_F_INDIRECT, next |-> 0],
      [addr |-> DescBase, len |-> 16 * TableN, flags |-> 0, next |-> 0] }

\* a chain whose current descriptor is d: the head checked_new accepted, or
\* a later descriptor, which next() loads without validating it
ParentChain(d) ==
    [ tag |-> "chain", desc_table |-> IndBase, table_size |-> 1, ttl |-> 1,
      index |-> 0, desc |-> d, iommu |-> FALSE ]

InitChain ==
    /\ \E t \in [0..(TableN - 1) -> EntryChoices] : mem = TableMem(t)
    /\ q = NewQueue(MaxSize)
    /\ iter = NoIter
    /\ chain = NoChain
    /\ last = [op |-> "init"]
    /\ panicked = FALSE
    /\ ioapic = NewIoapic
    /\ cpu = NoCpu
    /\ ops = 0
    /\ ghost = NoGhost

\* DescriptorChain::checked_new over the first table_size entries of the
\* table at DescBase
ChainCheckedNew ==
    /\ ~panicked
    /\ chain.tag = "none" /\ ghost.tag = "none"
    /\ \E table_size \in {1, TableN}, index \in 0..TableN :
          LET r == CheckedNew(mem, DescBase, table_size, index, FALSE)
          IN  /\ chain' = IF IsSome(r.ret) THEN Unwrap(r.ret) ELSE NoChain
              /\ panicked' = r.panic
              /\ last' = [op |-> "checked_new", table_size |-> table_size,
                          index |-> index, ok |-> IsSome(r.ret)]
              /\ ghost' = [tag |-> "chain", via |-> "checked_new", made |-> IsSome(r.ret),
                           table |-> DescBase, n |-> table_size, head |-> index,
                           yielded |-> <<>>]
    /\ UNCHANGED <<cpu, ioapic, mem, q, iter, ops>>

\* DescriptorChain::new_from_indirect on a chain standing on an indirect
\* descriptor
ChainNewFromIndirect ==
    /\ ~panicked
    /\ chain.tag = "none" /\ ghost.tag = "none"
    /\ \E d \in ParentDescs :
          LET r == NewFromIndirect(mem, ParentChain(d))
          IN  /\ chain' = IF IsSome(r.ret) THEN Unwrap(r.ret) ELSE NoChain
              /\ panicked' = r.panic
              /\ last' = [op |-> "new_from_indirect", parent |-> d,
                          ok |-> IsSome(r.ret), err |-> r.err]
              /\ ghost' = [tag |-> "chain", via |-> "new_from_indirect",
                           made |-> IsSome(r.ret), table |-> d.addr,
                           n |-> d.len \div 16, head |-> 0, yielded |-> <<>>]
    /\ UNCHANGED <<cpu, ioapic, mem, q, iter, ops>>

\* next() on the live chain
ChainNext ==
    /\ ~panicked
    /\ chain.tag = "chain"
    /\ ops < TableN + 2
    /\ LET r == ChainNextResult(mem, chain)
       IN  /\ chain' = r.chain
           /\ panicked' = r.panic
           /\ last' = [op |-> "chain_next", ret |-> r.ret, panic |-> r.panic]
           /\ ghost' = [ghost EXCEPT !.yielded =
                           IF IsSome(r.ret) THEN Append(@, Unwrap(r.ret)) ELSE @]
    /\ ops' = ops + 1
    /\ UNCHANGED <<cpu, ioapic, mem, q, iter>>

NextChain == ChainCheckedNew \/ ChainNewFromIndirect \/ ChainNext

SpecChain == InitChain /\ [][NextChain]_vars

\* C3: a chain created over a table of N entries (by checked_new, or by
\* new_from_indirect with N = len / 16) yields at most N descriptors,
\* whatever the table holds, cycles included; and once next() has returned
\* nothing, every later next() returns nothing.
C3_ChainYieldsAtMostN ==
    [][ /\ (chain'.tag = "chain"
              => /\ chain'.table_size = ghost'.n
                 /\ Len(ghost'.yielded) <= ghost'.n)
        /\ (last.op = "chain_next" /\ ~IsSome(last.ret) /\ last'.op = "chain_next")
              => ~IsSome(last'.ret)
        /\ (chain.tag = "chain" /\ Len(ghost.yielded) = ghost.n /\ last'.op = "chain_next")
              => (~IsSome(last'.ret) /\ ~panicked') ]_vars

\* C3 witness: a chain over a cyclic table has yielded N descriptors and a
\* further next() returned nothing
C3_Witness ==
    /\ chain.tag = "chain"
    /\ ghost.n = TableN
    /\ Len(ghost.yielded) = TableN
    /\ \A i \in 1..TableN : HasFlag(ghost.yielded[i].flags, VIRTQ_DESC_F_NEXT)
    /\ last.op = "chain_next" /\ ~IsSome(last.ret)

\* The NEXT-linked path from entry i of the table of n entries at a: the
\* indexes in link order, or <<-1>> when the path leaves the table or comes
\* back to an entry it has visited
RECURSIVE PathFrom(_, _, _, _, _)
PathFrom(m, a, n, i, seen) ==
    IF i >= n \/ i \in seen THEN <<-1>>
    ELSE LET d == ReadDesc(m, a + 16 * i)
         IN  IF ~HasFlag(d.flags, VIRTQ_DESC_F_NEXT) THEN <<i>>
             ELSE LET rest == PathFrom(m, a, n, d.next, seen \cup {i})
                  IN  IF rest = <<-1>> THEN rest ELSE <<i>> \o rest

ChainPath == PathFrom(mem, ghost.table, ghost.n, ghost.head, {})
ChainPathDescs == [k \in 1..Len(ChainPath) |-> ReadDesc(mem, ghost.table + 16 * ChainPath[k])]

IsPrefix(s, t) == Len(s) <= Len(t) /\ \A k \in 1..Len(s) : s[k] = t[k]

\* the chain has been iterated to completion
ChainDone == chain.ttl = 0 \/ (last.op = "chain_next" /\ ~IsSome(last.ret))

\* what C4 promises of a live chain whose path is acyclic and in the table
ChainYieldsPath ==
    /\ ~panicked
    /\ IsPrefix(ghost.yielded, ChainPathDescs)
    /\ ChainDone => ghost.yielded = ChainPathDescs

---------------------------------------------------------------------------
(* The available ring: Queue::iter and AvailIter.                          *)

\* AvailIter::new: the iterator that yields nothing
EmptyAvailIter ==
    [ tag |-> "iter", desc_table |-> 0, avail_ring |-> 0, next_index |-> 0,
      last_index |-> 0, queue_size |-> 0, iommu |-> FALSE ]

\* (mutant) every iterator starts at position 0 of the ring
QueueIter_FromZero(qq, m) ==
    IF ~IsSome(CheckedOffset(qq.avail_ring, 2)) THEN EmptyAvailIter
    ELSE IF ~RangeOk(qq.avail_ring + 2, 2) THEN EmptyAvailIter
    ELSE [ tag |-> "iter", desc_table |-> qq.desc_table,
           avail_ring |-> qq.avail_ring, next_index |-> 0,
           last_index |-> ReadU16(m, qq.avail_ring + 2),
           queue_size |-> ActualSize(qq), iommu |-> qq.iommu ]

\* Queue::iter
QueueIter(qq, m) ==
    IF ~IsSome(CheckedOffset(qq.avail_ring, 2)) THEN EmptyAvailIter
    ELSE IF ~RangeOk(qq.avail_ring + 2, 2) THEN EmptyAvailIter
    ELSE [ tag |-> "iter", desc_table |-> qq.desc_table,
           avail_ring |-> qq.avail_ring, next_index |-> qq.next_avail,
           last_index |-> ReadU16(m, qq.avail_ring + 2),
           queue_size |-> ActualSize(qq), iommu |-> qq.iommu ]

\* offset of the ring slot the iterator reads, computed in u16
AvailSlotOffset(it) == (4 + (it.next_index % it.queue_size) * 2) % U16

\* (mutant) next_avail follows next_index: advanced for every head read
AvailIterNext_AlwaysAdvances(it, next_avail, m) ==
    IF it.next_index = it.last_index \/ it.queue_size = 0
       \/ ~RangeOk(it.avail_ring + AvailSlotOffset(it), 2)
    THEN [iter |-> it, next_avail |-> next_avail, ret |-> None, panic |-> FALSE]
    ELSE LET r == CheckedNew(m, it.desc_table, it.queue_size,
                             ReadU16(m, it.avail_ring + AvailSlotOffset(it)), it.iommu)
         IN  [ iter |-> [it EXCEPT !.next_index = WrapAdd16(@, 1)],
               next_avail |-> WrapAdd16(next_avail, 1),
               ret |-> r.ret, panic |-> r.panic ]

\* AvailIter::next: the iterator and the queue's next_avail afterwards, the
\* chain yielded (or None) and whether the call panicked (remainder by a
\* queue_size of 0, or the remap hook)
AvailIterNext(it, next_avail, m) ==
    IF it.next_index = it.last_index
    THEN [iter |-> it, next_avail |-> next_avail, ret |-> None, panic |-> FALSE]
    ELSE IF it.queue_size = 0
    THEN [iter |-> it, next_avail |-> next_avail, ret |-> None, panic |-> TRUE]
    ELSE LET avail_addr == CheckedOffset(it.avail_ring, AvailSlotOffset(it))
         IN  IF ~IsSome(avail_addr)
             THEN [iter |-> it, next_avail |-> next_avail, ret |-> None, panic |-> FALSE]
             ELSE IF ~RangeOk(Unwrap(avail_addr), 2)
             THEN [iter |-> it, next_avail |-> next_avail, ret |-> None, panic |-> FALSE]
             ELSE LET desc_index == ReadU16(m, Unwrap(avail_addr))
                      it1 == [it EXCEPT !.next_index = WrapAdd16(@, 1)]
                      r == CheckedNew(m, it.desc_table, it.queue_size, desc_index, it.iommu)
                  IN  [ iter |-> it1,
                        next_avail |-> IF IsSome(r.ret) THEN WrapAdd16(next_avail, 1)
                                       ELSE next_avail,
                        ret |-> r.ret, panic |-> r.panic ]

\* the descriptor table of the available-ring runs: every entry a good
\* buffer, except entry 1, whose buffer is outside memory
AvailTable == [i \in 0..(TableN - 1) |->
                 IF i = 1
                 THEN [addr |-> BadBuf.addr, len |-> BadBuf.len, flags |-> 0, next |-> 0]
                 ELSE [addr |-> GoodBuf.addr, len |-> GoodBuf.len, flags |-> 0, next |-> 0]]

\* available-ring bases: the standard one, and one whose idx field is the
\* last two mapped bytes, so that every slot is outside memory
AvailRingBases == {AvailBase, R0End - 4}

\* heads the driver publishes: a good one, the bad one, one outside the table
PublishedHeads == {0, 1, 2 * MaxSize}

InitAvail ==
    /\ \E size \in DriverSizes, na \in Cursors, avail \in AvailRingBases,
          ready \in BOOLEAN :
          /\ q = [ConfiguredQueue(size, avail, UsedBase) EXCEPT !.next_avail = na,
                                                              !.ready = ready]
          /\ mem = WriteLE(WriteTable(ZeroMem, DescBase, AvailTable, 0), avail + 2, 2, na)
    /\ iter = NoIter
    /\ chain = NoChain
    /\ last = [op |-> "init"]
    /\ panicked = FALSE
    /\ ioapic = NewIoapic
    /\ cpu = NoCpu
    /\ ops = 0
    /\ ghost = NoGhost

\* the driver publishes a head: it stores the index in the ring slot of
\* avail.idx and increments avail.idx
DriverPublish ==
    /\ ~panicked
    /\ ops < MaxOps + 2
    /\ iter.tag = "none"
    /\ q.size > 0
    /\ RangeOk(q.avail_ring, 6 + 2 * q.size)
    /\ \E head \in PublishedHeads :
          LET idx == ReadU16(mem, q.avail_ring + 2)
              m1 == WriteLE(mem, q.avail_ring + 4 + 2 * (idx % q.size), 2, head)
          IN  /\ mem' = WriteLE(m1, q.avail_ring + 2, 2, WrapAdd16(idx, 1))
              /\ last' = [op |-> "driver_publish", head |-> head]
    /\ ops' = ops + 1
    /\ UNCHANGED <<cpu, ioapic, q, iter, chain, panicked, ghost>>

\* a malicious driver moves avail.idx without publishing anything
DriverSetAvailIdx ==
    /\ ~panicked
    /\ ops < MaxOps + 2
    /\ iter.tag = "none"
    /\ RangeOk(q.avail_ring + 2, 2)
    /\ \E idx \in {1, U16 - 2} :
          /\ mem' = WriteLE(mem, q.avail_ring + 2, 2, idx)
          /\ last' = [op |-> "driver_set_avail_idx", idx |-> idx]
    /\ ops' = ops + 1
    /\ UNCHANGED <<cpu, ioapic, q, iter, chain, panicked, ghost>>

\* Queue::iter
IterCreate ==
    /\ ~panicked
    /\ ops < MaxOps + 2
    /\ iter.tag = "none"
    /\ iter' = QueueIter(q, mem)
    /\ last' = [op |-> "iter"]
    /\ ghost' = [ tag |-> "iteration", start |-> q.next_avail, yielded |-> 0,
                  reads |-> 0,
                  redo |-> IF ghost.tag = "rewound" /\ ghost.mem = mem
                           THEN ghost.chain ELSE NoChain ]
    /\ ops' = ops + 1
    /\ UNCHANGED <<cpu, ioapic, mem, q, chain, panicked>>

\* AvailIter::next
AvailNext ==
    /\ ~panicked
    /\ iter.tag = "iter"
    /\ ghost.reads < MaxReads
    /\ LET r == AvailIterNext(iter, q.next_avail, mem)
       IN  /\ iter' = r.iter
           /\ q' = [q EXCEPT !.next_avail = r.next_avail]
           /\ chain' = IF IsSome(r.ret) THEN Unwrap(r.ret) ELSE chain
           /\ panicked' = r.panic
           /\ last' = [op |-> "avail_next", ret |-> r.ret, panic |-> r.panic]
           /\ ghost' = [ghost EXCEPT !.yielded = IF IsSome(r.ret) THEN @ + 1 ELSE @,
                                      !.reads = @ + 1]
    /\ UNCHANGED <<cpu, ioapic, mem, ops>>

\* the iterator is dropped
IterDrop ==
    /\ ~panicked
    /\ iter.tag = "iter"
    /\ iter' = NoIter
    /\ chain' = NoChain
    /\ last' = [op |-> "iter_drop"]
    /\ ghost' = [tag |-> "dropped", chain |-> chain, mem |-> mem]
    /\ UNCHANGED <<cpu, ioapic, mem, q, panicked, ops>>

\* Queue::go_to_previous_position
GoToPreviousPositionResult(qq) == [qq EXCEPT !.next_avail = WrapSub16(@, 1)]

\* the device puts back what it took: go_to_previous_position once the
\* iterator is dropped
GoToPreviousPosition ==
    /\ ~panicked
    /\ iter.tag = "none"
    /\ ghost.tag = "dropped"
    /\ q' = GoToPreviousPositionResult(q)
    /\ last' = [op |-> "go_to_previous_position"]
    /\ ghost' = [ghost EXCEPT !.tag = "rewound"]
    /\ UNCHANGED <<cpu, ioapic, mem, iter, chain, panicked, ops>>

NextAvail ==
    \/ DriverPublish \/ DriverSetAvailIdx
    \/ IterCreate \/ AvailNext \/ IterDrop
    \/ GoToPreviousPosition

SpecAvail == InitAvail /\ [][NextAvail]_vars

\* C2: the iterator of Queue::iter advances next_avail by exactly 1
\* (modulo 2^16) for each chain it yields and not at all on a next() that
\* yields nothing: at any point of an iteration, next_avail is its value at
\* the call of iter plus the number of chains yielded, modulo 2^16.
C2_NextAvailCountsYields ==
    [][ /\ ghost'.tag = "iteration"
           => q'.next_avail = (ghost'.start + ghost'.yielded) % U16
        /\ last'.op = "avail_next"
           => q'.next_avail = (q.next_avail + (IF IsSome(last'.ret) THEN 1 ELSE 0)) % U16
      ]_vars

\* C2 witness: an iteration that started at 65535 has yielded two chains and
\* then read a head it did not yield
C2_Witness ==
    /\ ghost.tag = "iteration"
    /\ ghost.start = U16 - 1
    /\ ghost.yielded = 2
    /\ q.next_avail = 1
    /\ last.op = "avail_next" /\ ~IsSome(last.ret)
    /\ iter.tag = "iter" /\ iter.next_index # q.next_avail

---------------------------------------------------------------------------
(* Queue::is_valid.                                                        *)

\* GuestAddress::checked_add followed by address_in_range, as is_valid uses
\* them: FALSE when the address one past the ring is in a mapped region
EndOutOfBounds(base, size) == ~AddressInRange(base + size)

\* Queue::is_valid
QueueIsValid(qq) ==
    LET queue_size == ActualSize(qq)
        desc_table_size == 16 * queue_size
        avail_ring_size == 6 + 2 * queue_size
        used_ring_size == 6 + 8 * queue_size
    IN  IF ~qq.ready THEN FALSE
        ELSE IF qq.size > qq.max_size \/ qq.size = 0
                \/ BitAnd(qq.size, qq.size - 1) # 0 THEN FALSE
        ELSE IF EndOutOfBounds(qq.desc_table, desc_table_size) THEN FALSE
        ELSE IF EndOutOfBounds(qq.avail_ring, avail_ring_size) THEN FALSE
        ELSE IF EndOutOfBounds(qq.used_ring, used_ring_size) THEN FALSE
        ELSE IF qq.desc_table % 16 # 0 THEN FALSE
        ELSE IF qq.avail_ring % 2 # 0 THEN FALSE
        ELSE IF qq.used_ring % 4 # 0 THEN FALSE
        ELSE TRUE

\* ring bases a driver may program: the standard one, a misaligned one, one
\* that puts a 1-entry ring at the very end of region 0, one in the hole
\* between the regions, and one past the end of memory
DescTableBases == {DescBase, DescBase + 8, R0End - 16, R0End + 16, R1End}
AvailRingChoices == {AvailBase, AvailBase + 1, R0End - 8, R1Start - 2, R1End}
UsedRingChoices == {UsedBase, UsedBase + 2, R1Start - 4, R1End}

InitValid ==
    /\ q = ConfiguredQueue(MaxSize, AvailBase, UsedBase)
    /\ mem = ZeroMem
    /\ iter = NoIter
    /\ chain = NoChain
    /\ last = [op |-> "init"]
    /\ panicked = FALSE
    /\ ioapic = NewIoapic
    /\ cpu = NoCpu
    /\ ops = 0
    /\ ghost = NoGhost

\* the transport stores the driver's queue_ready
SetReady ==
    /\ \E b \in BOOLEAN : q' = [q EXCEPT !.ready = b]
    /\ last' = [op |-> "set_ready"]
    /\ UNCHANGED <<cpu, ioapic, mem, iter, chain, panicked, ops, ghost>>

\* the transport stores the driver's queue_size
SetSize ==
    /\ \E size \in DriverSizes \cup {MaxSize - 1} : q' = [q EXCEPT !.size = size]
    /\ last' = [op |-> "set_size"]
    /\ UNCHANGED <<cpu, ioapic, mem, iter, chain, panicked, ops, ghost>>

\* the transport stores the driver's descriptor-table address
SetDescTable ==
    /\ \E a \in DescTableBases : q' = [q EXCEPT !.desc_table = a]
    /\ last' = [op |-> "set_desc_table"]
    /\ UNCHANGED <<cpu, ioapic, mem, iter, chain, panicked, ops, ghost>>

\* the transport stores the driver's available-ring address
SetAvailRing ==
    /\ \E a \in AvailRingChoices : q' = [q EXCEPT !.avail_ring = a]
    /\ last' = [op |-> "set_avail_ring"]
    /\ UNCHANGED <<cpu, ioapic, mem, iter, chain, panicked, ops, ghost>>

\* the transport stores the driver's used-ring address
SetUsedRing ==
    /\ \E a \in UsedRingChoices : q' = [q EXCEPT !.used_ring = a]
    /\ last' = [op |-> "set_used_ring"]
    /\ UNCHANGED <<cpu, ioapic, mem, iter, chain, panicked, ops, ghost>>

\* Queue::is_valid
IsValid ==
    /\ last.op # "is_valid"
    /\ last' = [op |-> "is_valid", ret |-> QueueIsValid(q)]
    /\ UNCHANGED <<cpu, ioapic, mem, q, iter, chain, panicked, ops, ghost>>

NextValid == SetReady \/ SetSize \/ SetDescTable \/ SetAvailRing \/ SetUsedRing \/ IsValid

SpecValid == InitValid /\ [][NextValid]_vars

\* every byte of base .. base + n - 1 is mapped
WhollyMapped(base, n) == \A a \in base..(base + n - 1) : AddressInRange(a)

\* the conditions under which a queue is valid
QueueConditions(qq) ==
    /\ qq.ready
    /\ IsPowerOfTwo(qq.size) /\ 0 < qq.size /\ qq.size <= qq.max_size
    /\ WhollyMapped(qq.desc_table, 16 * qq.size)
    /\ WhollyMapped(qq.avail_ring, 6 + 2 * qq.size)
    /\ WhollyMapped(qq.used_ring, 6 + 8 * qq.size)
    /\ qq.desc_table % 16 = 0
    /\ qq.avail_ring % 2 = 0
    /\ qq.used_ring % 4 = 0

\* C5: Queue::is_valid returns true if and only if the queue is ready, size
\* is a power of two with 0 < size <= max_size, the descriptor table, the
\* available ring and the used ring each lie wholly within mapped guest
\* memory, and the three bases are aligned to 16, 2 and 4 bytes.
C5_IsValidIffConditions ==
    last.op = "is_valid" => (last.ret <=> QueueConditions(q))

---------------------------------------------------------------------------
(* The I/O APIC.                                                           *)

IOAPIC_VERSION_ID == 1507345
IOAPIC_REG_ID == 0
IOAPIC_REG_VERSION == 1
IOAPIC_REG_ARBITRATION_ID == 2
IOREGSEL_OFF == 0
IOWIN_OFF == 16
IOWIN_SCALE == 2
REG_MAX_OFFSET == IOWIN_OFF + (NUM_IOAPIC_PINS * 2) - 1

\* the 1 bits of a number below 2^31
Bits(n) == {b \in 0..30 : (n \div (2^b)) % 2 = 1}

\* the number a set of bit positions below 31 stands for
RECURSIVE ToNat(_)
ToNat(s) == IF s = {} THEN 0
            ELSE LET b == CHOOSE x \in s : TRUE IN 2^b + ToNat(s \ {b})

\* x << k in a w-bit integer, x >> k, and x as u8
Shl(x, k, w) == {b + k : b \in x} \cap 0..(w - 1)
Shr(x, k) == {b - k : b \in {c \in x : c >= k}}
AsU8(x) == x \cap 0..7

\* the field accessors of a redirection-table entry
vector(entry) == AsU8(entry \cap 0..7)
delivery_mode(entry) == AsU8(Shr(entry, 8) \cap 0..2)
destination_mode(entry) == AsU8(Shr(entry, 11) \cap {0})
remote_irr(entry) == AsU8(Shr(entry, 14) \cap {0})
trigger_mode(entry) == AsU8(Shr(entry, 15) \cap {0})
\* (mutant) the mask bit ignored
interrupt_mask_Never(entry) == {}

interrupt_mask(entry) == AsU8(Shr(entry, 16) \cap {0})
destination_field_physical(entry) == AsU8(Shr(entry, 56) \cap 0..3)
destination_field_logical(entry) == AsU8(Shr(entry, 56) \cap 0..7)
set_delivery_status(entry, val) == (entry \cap (0..63 \ {12})) \cup Shl(val \cap {0}, 12, 64)
set_remote_irr(entry, val) == (entry \cap (0..63 \ {14})) \cup Shl(val \cap {0}, 14, 64)

\* decode_irq_from_selector
DecodeIrqFromSelector(selector) ==
    [ index |-> (selector - IOWIN_OFF) \div IOWIN_SCALE,
      is_high_bits |-> selector % 2 # 0 ]

\* (mutant) a low-half write that keeps only the delivery status of the old half
IoapicWrite_ClobbersIrr(io, val) ==
    LET sel == ToNat(AsU8(io.reg_sel))
        d == DecodeIrqFromSelector(sel)
    IN  IF sel = IOAPIC_REG_ID THEN [io EXCEPT !.id = Shr(val, 24) \cap 0..3]
        ELSE IF sel >= IOWIN_OFF /\ sel <= REG_MAX_OFFSET
        THEN IF d.is_high_bits
             THEN [io EXCEPT !.reg_entries[d.index] = (@ \cap 0..31) \cup Shl(val, 32, 64)]
             ELSE [io EXCEPT !.reg_entries[d.index] =
                      (@ \cap (32..63 \cup {12})) \cup (val \cap (0..31 \ {12}))]
        ELSE io

\* (mutant) the arbitration ID register is writable too
IoapicWrite_ArbitrationWritable(io, val) ==
    LET sel == ToNat(AsU8(io.reg_sel))
        d == DecodeIrqFromSelector(sel)
    IN  IF sel = IOAPIC_REG_ID \/ sel = IOAPIC_REG_ARBITRATION_ID
        THEN [io EXCEPT !.id = Shr(val, 24) \cap 0..3]
        ELSE IF sel >= IOWIN_OFF /\ sel <= REG_MAX_OFFSET
        THEN IF d.is_high_bits
             THEN [io EXCEPT !.reg_entries[d.index] = (@ \cap 0..31) \cup Shl(val, 32, 64)]
             ELSE [io EXCEPT !.reg_entries[d.index] =
                      (@ \cap (32..63 \cup {12, 14})) \cup (val \cap (0..31 \ {12, 14}))]
        ELSE io

\* Ioapic::ioapic_write
IoapicWrite(io, val) ==
    LET sel == ToNat(AsU8(io.reg_sel))
        d == DecodeIrqFromSelector(sel)
    IN  IF sel = IOAPIC_REG_ID THEN [io EXCEPT !.id = Shr(val, 24) \cap 0..3]
        ELSE IF sel >= IOWIN_OFF /\ sel <= REG_MAX_OFFSET
        THEN IF d.is_high_bits
             THEN [io EXCEPT !.reg_entries[d.index] = (@ \cap 0..31) \cup Shl(val, 32, 64)]
             ELSE [io EXCEPT !.reg_entries[d.index] =
                      (@ \cap (32..63 \cup {12, 14})) \cup (val \cap (0..31 \ {12, 14}))]
        ELSE io

\* (mutant) the version register reads the ID
IoapicRead_VersionIsId(io) ==
    LET sel == ToNat(AsU8(io.reg_sel))
        d == DecodeIrqFromSelector(sel)
    IN  IF sel \in {IOAPIC_REG_ID, IOAPIC_REG_VERSION, IOAPIC_REG_ARBITRATION_ID}
        THEN Shl(io.id \cap 0..3, 24, 32)
        ELSE IF sel >= IOWIN_OFF /\ sel <= REG_MAX_OFFSET
        THEN IF d.is_high_bits
             THEN Shr(io.reg_entries[d.index], 32) \cap 0..31
             ELSE io.reg_entries[d.index] \cap 0..31
        ELSE {}

\* (mutant) the high half of an entry read without the shift
IoapicRead_NoShift(io) ==
    LET sel == ToNat(AsU8(io.reg_sel))
        d == DecodeIrqFromSelector(sel)
    IN  IF sel = IOAPIC_REG_VERSION THEN Bits(IOAPIC_VERSION_ID)
        ELSE IF sel = IOAPIC_REG_ID \/ sel = IOAPIC_REG_ARBITRATION_ID
        THEN Shl(io.id \cap 0..3, 24, 32)
        ELSE IF sel >= IOWIN_OFF /\ sel <= REG_MAX_OFFSET
        THEN io.reg_entries[d.index] \cap 0..31
        ELSE {}

\* Ioapic::ioapic_read
IoapicRead(io) ==
    LET sel == ToNat(AsU8(io.reg_sel))
        d == DecodeIrqFromSelector(sel)
    IN  IF sel = IOAPIC_REG_VERSION THEN Bits(IOAPIC_VERSION_ID)
        ELSE IF sel = IOAPIC_REG_ID \/ sel = IOAPIC_REG_ARBITRATION_ID
        THEN Shl(io.id \cap 0..3, 24, 32)
        ELSE IF sel >= IOWIN_OFF /\ sel <= REG_MAX_OFFSET
        THEN IF d.is_high_bits
             THEN Shr(io.reg_entries[d.index], 32) \cap 0..31
             ELSE io.reg_entries[d.index] \cap 0..31
        ELSE {}

\* BusDevice::write: the device afterwards and whether the call panicked
BusWriteResult(io, offset, len, value) ==
    IF len # 4 THEN [io |-> io, panic |-> TRUE]
    ELSE IF offset % 256 = IOREGSEL_OFF
    THEN [io |-> [io EXCEPT !.reg_sel = value], panic |-> FALSE]
    ELSE IF offset % 256 = IOWIN_OFF
    THEN [io |-> IoapicWrite(io, value), panic |-> FALSE]
    ELSE [io |-> io, panic |-> FALSE]

\* BusDevice::read: the data buffer afterwards and whether the call panicked
BusReadResult(io, offset, len, data) ==
    IF len # 4 THEN [data |-> data, panic |-> TRUE]
    ELSE IF offset % 256 = IOREGSEL_OFF THEN [data |-> io.reg_sel, panic |-> FALSE]
    ELSE IF offset % 256 = IOWIN_OFF THEN [data |-> IoapicRead(io), panic |-> FALSE]
    ELSE [data |-> data, panic |-> FALSE]

\* (mutant) remote IRR cleared on every level-triggered entry
EndOfInterruptResult_AnyVector(io, vec) ==
    [io EXCEPT !.reg_entries = [i \in 0..(NUM_IOAPIC_PINS - 1) |->
        IF trigger_mode(io.reg_entries[i]) = {0}
        THEN set_remote_irr(io.reg_entries[i], {})
        ELSE io.reg_entries[i]]]

\* Ioapic::end_of_interrupt
EndOfInterruptResult(io, vec) ==
    [io EXCEPT !.reg_entries = [i \in 0..(NUM_IOAPIC_PINS - 1) |->
        IF vector(io.reg_entries[i]) = vec /\ trigger_mode(io.reg_entries[i]) = {0}
        THEN set_remote_irr(io.reg_entries[i], {})
        ELSE io.reg_entries[i]]]

\* (mutant) the physical destination taken as all 8 bits of the field
ServiceIrqMsi_WideDest(entry) ==
    [ address_lo |-> Shl(Bits(4078), 20, 32)
                     \cup Shl(destination_field_logical(entry), 12, 32)
                     \cup Shl({0}, 3, 32)
                     \cup Shl(destination_mode(entry), 2, 32),
      address_hi |-> {},
      data |-> Shl(trigger_mode(entry), 15, 32) \cup Shl(remote_irr(entry), 14, 32)
               \cup Shl(delivery_mode(entry), 8, 32) \cup vector(entry) ]

\* the kvm_msi service_irq builds from an entry (0xfee0_0000 is 0xfee << 20)
ServiceIrqMsi(entry) ==
    LET destination_id == IF destination_mode(entry) = {}
                          THEN destination_field_physical(entry)
                          ELSE destination_field_logical(entry)
        redirection_hint == {0}
    IN  [ address_lo |-> Shl(Bits(4078), 20, 32)
                         \cup Shl(destination_id, 12, 32)
                         \cup Shl(redirection_hint, 3, 32)
                         \cup Shl(destination_mode(entry), 2, 32),
          address_hi |-> {},
          data |-> Shl(trigger_mode(entry), 15, 32) \cup Shl(remote_irr(entry), 14, 32)
                   \cup Shl(delivery_mode(entry), 8, 32) \cup vector(entry) ]

\* (mutant) remote IRR set whatever the trigger mode
ServiceIrqAccepted_AlwaysIrr(entry) == set_delivery_status(set_remote_irr(entry, {0}), {})

\* the entry after the KVF accepted the MSI
ServiceIrqAccepted(entry) ==
    set_delivery_status(IF trigger_mode(entry) = {0} THEN set_remote_irr(entry, {0})
                        ELSE entry, {})

\* what vm_fd.signal_msi may return: Ok(1), Ok(0) or an OS error (ret is
\* then its errno: EINTR or EINVAL)
KvfOutcomes == { [ok |-> TRUE, ret |-> 1], [ok |-> TRUE, ret |-> 0],
                 [ok |-> FALSE, ret |-> 4], [ok |-> FALSE, ret |-> 22] }

\* service_irq returning without an MSI
NoMsi(io, ret) == [io |-> io, msis |-> <<>>, ret |-> ret, err |-> 0, panic |-> FALSE]

\* (mutant) an acceptance count of 0 treated as a delivery
ServiceIrqResult_AcceptsZero(io, irq, kvf) ==
    IF irq >= NUM_IOAPIC_PINS
    THEN [io |-> io, msis |-> <<>>, ret |-> "panic", err |-> 0, panic |-> TRUE]
    ELSE LET entry == io.reg_entries[irq] IN
         IF interrupt_mask(entry) = {0} THEN NoMsi(io, "Ok")
         ELSE IF ~kvf.ok
         THEN [io |-> io, msis |-> <<ServiceIrqMsi(entry)>>, ret |-> "InterruptFailed",
               err |-> kvf.ret, panic |-> FALSE]
         ELSE [io |-> [io EXCEPT !.reg_entries[irq] = ServiceIrqAccepted(entry)],
               msis |-> <<ServiceIrqMsi(entry)>>, ret |-> "Ok", err |-> 0, panic |-> FALSE]

\* Ioapic::service_irq: the device afterwards, the MSIs submitted to the KVF,
\* the result (err is the OS error an InterruptFailed carries) and whether
\* the call panicked (irq outside the table)
ServiceIrqResult(io, irq, kvf) ==
    IF irq >= NUM_IOAPIC_PINS
    THEN [io |-> io, msis |-> <<>>, ret |-> "panic", err |-> 0, panic |-> TRUE]
    ELSE LET entry == io.reg_entries[irq] IN
         IF interrupt_mask(entry) = {0} THEN NoMsi(io, "Ok")
         ELSE IF destination_mode(entry) \notin {{}, {0}}
         THEN NoMsi(io, "InvalidDestinationMode")
         ELSE IF trigger_mode(entry) \notin {{}, {0}}
         THEN NoMsi(io, "InvalidTriggerMode")
         ELSE IF ToNat(delivery_mode(entry)) \notin 0..7
         THEN NoMsi(io, "InvalidDeliveryMode")
         ELSE IF ~kvf.ok
         THEN [io |-> io, msis |-> <<ServiceIrqMsi(entry)>>, ret |-> "InterruptFailed",
               err |-> kvf.ret, panic |-> FALSE]
         ELSE IF kvf.ret > 0
         THEN [io |-> [io EXCEPT !.reg_entries[irq] = ServiceIrqAccepted(entry)],
               msis |-> <<ServiceIrqMsi(entry)>>, ret |-> "Ok", err |-> 0, panic |-> FALSE]
         ELSE [io |-> io, msis |-> <<ServiceIrqMsi(entry)>>, ret |-> "Ok", err |-> 0,
               panic |-> FALSE]

\* offsets of guest accesses: IOREGSEL, IOWIN, an unknown one, and one that
\* is IOWIN after the cast to u8
BusOffsets == {IOREGSEL_OFF, IOWIN_OFF, 32, 256 + IOWIN_OFF}

\* values the guest writes: 0x10 and 0x11 (as selectors pin 0 low and high),
\* 0x30 (an edge-triggered vector; as a selector pin 16 low), 0x8830 (level,
\* logical, vector 0x30; pin 16 low after the cast to u8), 0x0100_0000
\* (destination 1; the ID register as a selector) and 0xffff_ffff (masked,
\* every field at its maximum; no register as a selector)
GuestValues == {Bits(16), Bits(17), Bits(48), Bits(34864), Bits(16777216), 0..31}

\* lengths of the data buffer of a guest access
DataLens == {4, 8}

ServicedIrqs == {0, 16, NUM_IOAPIC_PINS}

InitIoapic ==
    /\ mem = ZeroMem
    /\ q = NewQueue(MaxSize)
    /\ iter = NoIter
    /\ chain = NoChain
    /\ last = [op |-> "init"]
    /\ panicked = FALSE
    /\ ioapic = NewIoapic
    /\ cpu = NoCpu
    /\ ops = 0
    /\ ghost = NoGhost

\* BusDevice::write
BusWrite ==
    /\ ~panicked
    /\ ops < MaxIoOps
    /\ \E offset \in BusOffsets, len \in DataLens, value \in GuestValues :
       \E r \in {BusWriteResult(ioapic, offset, len, value)} :
          /\ ioapic' = r.io
          /\ panicked' = r.panic
          /\ last' = [op |-> "write", offset |-> offset, len |-> len,
                      value |-> value, panic |-> r.panic]
    /\ ops' = ops + 1
    /\ UNCHANGED <<cpu, mem, q, iter, chain, ghost>>

\* BusDevice::read
BusRead ==
    /\ ~panicked
    /\ ops < MaxIoOps
    /\ \E offset \in BusOffsets, len \in DataLens, data \in {{}, 0..31} :
          LET r == BusReadResult(ioapic, offset, len, data)
          IN  /\ panicked' = r.panic
              /\ last' = [op |-> "read", offset |-> offset, len |-> len,
                          before |-> data, data |-> r.data, panic |-> r.panic]
    /\ ops' = ops + 1
    /\ UNCHANGED <<cpu, mem, q, iter, chain, ioapic, ghost>>

\* Ioapic::service_irq
ServiceIrq ==
    /\ ~panicked
    /\ ops < MaxIoOps
    /\ \E irq \in ServicedIrqs, kvf \in KvfOutcomes :
       \E r \in {ServiceIrqResult(ioapic, irq, kvf)} :
          /\ ioapic' = r.io
          /\ panicked' = r.panic
          /\ last' = [op |-> "service_irq", irq |-> irq, kvf |-> kvf,
                      msis |-> r.msis, ret |-> r.ret, err |-> r.err]
    /\ ops' = ops + 1
    /\ UNCHANGED <<cpu, mem, q, iter, chain, ghost>>

\* Ioapic::end_of_interrupt
EndOfInterrupt ==
    /\ ~panicked
    /\ ops < MaxIoOps
    /\ \E vec \in {Bits(48), Bits(49)} :
          /\ ioapic' = EndOfInterruptResult(ioapic, vec)
          /\ last' = [op |-> "end_of_interrupt", vec |-> vec,
                      irr_before |-> {i \in 0..(NUM_IOAPIC_PINS - 1) :
                                        14 \in ioapic.reg_entries[i]}]
    /\ ops' = ops + 1
    /\ UNCHANGED <<cpu, mem, q, iter, chain, panicked, ghost>>

NextIoapic == BusWrite \/ BusRead \/ ServiceIrq \/ EndOfInterrupt

SpecIoapic == InitIoapic /\ [][NextIoapic]_vars

\* the pin a selector of the redirection table addresses
SelectedPin(io) == (ToNat(AsU8(io.reg_sel)) - 16) \div 2

\* the last operation was a guest write through IOWIN to a half of a
\* redirection-table entry
WroteEntryHalf(io, l) ==
    /\ l.op = "write" /\ ~l.panic
    /\ l.offset % 256 = 16
    /\ ToNat(AsU8(io.reg_sel)) \in 16..63

\* C8: a guest write through IOWIN to one half of a redirection-table entry
\* changes only that half of that entry: a low-half write leaves bits 12 and
\* 14 and the upper 32 bits unchanged, a high-half write leaves the lower 32
\* bits unchanged, and no other entry, the ID or IOREGSEL changes.
C8_HalfWriteFrame ==
    [][ WroteEntryHalf(ioapic, last') =>
          LET i == SelectedPin(ioapic)
              old == ioapic.reg_entries[i]
              new == ioapic'.reg_entries[i]
              low == ToNat(AsU8(ioapic.reg_sel)) % 2 = 0
          IN  /\ low => /\ \A b \in {12, 14} \cup 32..63 : (b \in new) <=> (b \in old)
              /\ ~low => \A b \in 0..31 : (b \in new) <=> (b \in old)
              /\ \A j \in 0..23 : j # i => ioapic'.reg_entries[j] = ioapic.reg_entries[j]
              /\ ioapic'.id = ioapic.id
              /\ ioapic'.reg_sel = ioapic.reg_sel
      ]_vars

\* C8 witness: a low-half write of 0x30 to pin 0 while its remote IRR is set
\* has replaced the trigger mode and kept the remote IRR
C8_Witness ==
    /\ WroteEntryHalf(ioapic, last)
    /\ AsU8(ioapic.reg_sel) = {4}
    /\ last.value = {4, 5}
    /\ ioapic.reg_entries[0] = {4, 5, 14}

\* C9: for every unmasked redirection-table entry, service_irq submits
\* exactly one MSI whose low address is 0xFEE0_0000 | dest_id << 12 | 1 << 3 |
\* dest_mode << 2, dest_id being the low 4 bits of the destination field in
\* physical mode and all 8 in logical mode, whose high address is 0 and whose
\* data is trigger << 15 | remote_irr << 14 | delivery_mode << 8 | vector, all
\* taken from the entry as it is when service_irq is called.
C9_ServiceIrqMsi ==
    [][ ( /\ last'.op = "service_irq"
          /\ last'.irq < 24
          /\ 16 \notin ioapic.reg_entries[last'.irq] ) =>
          LET e == ioapic.reg_entries[last'.irq]
              logical == 11 \in e
          IN  /\ Len(last'.msis) = 1
              /\ \A b \in 0..31 :
                    b \in last'.msis[1].address_lo <=>
                       \/ b \in {21, 22, 23, 25, 26, 27, 28, 29, 30, 31}
                       \/ b \in 12..15 /\ (b + 44) \in e
                       \/ b \in 16..19 /\ (b + 44) \in e /\ logical
                       \/ b = 3
                       \/ b = 2 /\ logical
              /\ last'.msis[1].address_lo \subseteq 0..31
              /\ last'.msis[1].address_hi = {}
              /\ last'.msis[1].data = e \cap {15, 14, 10, 9, 8, 7, 6, 5, 4, 3, 2, 1, 0}
      ]_vars

\* C9 witness: service_irq has run on an unmasked entry in physical mode whose
\* destination field is 0xff, and submitted address_lo 0xFEE0_F008
C9_Witness ==
    /\ last.op = "service_irq"
    /\ last.irq = 0
    /\ Len(last.msis) = 1
    /\ 56..63 \subseteq ioapic.reg_entries[0]
    /\ 11 \notin ioapic.reg_entries[0] /\ 16 \notin ioapic.reg_entries[0]
    /\ last.msis[1].address_lo = {3, 12, 13, 14, 15, 21, 22, 23, 25, 26, 27, 28, 29, 30, 31}
    /\ last.msis[1].data = {4, 5}

\* C10: when service_irq(i) submits an MSI and the KVF reports a positive
\* acceptance count, the entry of pin i ends with delivery status (bit 12)
\* clear and with remote IRR (bit 14) set if the entry is level-triggered and
\* unchanged if it is edge-triggered; no other bit of that entry, no other
\* entry, and neither the ID nor IOREGSEL changes, and the call returns
\* success.
C10_ServiceIrqAccepted ==
    [][ ( /\ last'.op = "service_irq"
          /\ Len(last'.msis) = 1
          /\ last'.kvf.ok /\ last'.kvf.ret > 0 ) =>
          LET old == ioapic.reg_entries[last'.irq]
              new == ioapic'.reg_entries[last'.irq]
          IN  /\ 12 \notin new
              /\ (15 \in old) => 14 \in new
              /\ (15 \notin old) => ((14 \in new) <=> (14 \in old))
              /\ \A b \in 0..63 \ {12, 14} : (b \in new) <=> (b \in old)
              /\ \A j \in 0..23 : j # last'.irq =>
                    ioapic'.reg_entries[j] = ioapic.reg_entries[j]
              /\ ioapic'.id = ioapic.id
              /\ ioapic'.reg_sel = ioapic.reg_sel
              /\ last'.ret = "Ok"
      ]_vars

\* C10 witness: an accepted service_irq on a level-triggered entry whose
\* remote IRR was clear (the MSI data has level 0) has set it
C10_Witness ==
    /\ last.op = "service_irq"
    /\ last.kvf.ok /\ last.kvf.ret > 0
    /\ Len(last.msis) = 1
    /\ 14 \notin last.msis[1].data
    /\ 15 \in ioapic.reg_entries[last.irq]
    /\ 14 \in ioapic.reg_entries[last.irq]
    /\ 12 \notin ioapic.reg_entries[last.irq]

\* C11: end_of_interrupt(vec) clears remote IRR (bit 14) on every entry that
\* is level-triggered and whose vector equals vec, and changes nothing else:
\* the other entries, every other bit of the matching entries, the ID and
\* IOREGSEL stay as they were.
C11_EndOfInterrupt ==
    [][ last'.op = "end_of_interrupt" =>
          /\ \A i \in 0..23 :
                LET old == ioapic.reg_entries[i]
                    new == ioapic'.reg_entries[i]
                    matches == 15 \in old /\ (old \cap 0..7) = last'.vec
                IN  /\ matches => 14 \notin new
                    /\ ~matches => new = old
                    /\ \A b \in 0..63 \ {14} : (b \in new) <=> (b \in old)
          /\ ioapic'.id = ioapic.id
          /\ ioapic'.reg_sel = ioapic.reg_sel
      ]_vars

\* C11 witness: end_of_interrupt(0x30) has cleared the remote IRR that an
\* accepted service_irq had set on pin 0, level-triggered with vector 0x30
C11_Witness ==
    /\ last.op = "end_of_interrupt"
    /\ last.vec = {4, 5}
    /\ 0 \in last.irr_before
    /\ ioapic.reg_entries[0] = {4, 5, 11, 15}

\* C12: service_irq(i) on an entry whose mask bit (bit 16) is set returns
\* success without submitting any MSI and leaves the I/O APIC unchanged.
C12_MaskedNotDelivered ==
    [][ ( /\ last'.op = "service_irq"
          /\ last'.irq < 24
          /\ 16 \in ioapic.reg_entries[last'.irq] ) =>
          /\ last'.ret = "Ok"
          /\ last'.msis = <<>>
          /\ ioapic' = ioapic
          /\ ~panicked'
      ]_vars

\* C12 witness: service_irq has run on a masked entry, with a KVF that would
\* have accepted
C12_Witness ==
    /\ last.op = "service_irq"
    /\ last.irq = 0
    /\ 16 \in ioapic.reg_entries[0]
    /\ last.kvf.ok /\ last.kvf.ret > 0
    /\ last.msis = <<>>

\* C13: when the KVF answers the MSI with an acceptance count of zero,
\* service_irq returns success; when it answers with an OS error, service_irq
\* returns InterruptFailed carrying that error; in both cases the entries,
\* the ID and IOREGSEL are unchanged.
C13_BlockedOrFailed ==
    [][ ( /\ last'.op = "service_irq"
          /\ Len(last'.msis) = 1
          /\ ~(last'.kvf.ok /\ last'.kvf.ret > 0) ) =>
          /\ (last'.kvf.ok /\ last'.kvf.ret = 0) => last'.ret = "Ok"
          /\ ~last'.kvf.ok => (last'.ret = "InterruptFailed" /\ last'.err = last'.kvf.ret)
          /\ ioapic'.reg_entries = ioapic.reg_entries
          /\ ioapic'.id = ioapic.id
          /\ ioapic'.reg_sel = ioapic.reg_sel
      ]_vars

\* C13 witness: the KVF has blocked (count 0) the MSI of a level-triggered
\* entry, whose remote IRR is still clear
C13_Witness ==
    /\ last.op = "service_irq"
    /\ Len(last.msis) = 1
    /\ last.kvf.ok /\ last.kvf.ret = 0
    /\ last.ret = "Ok"
    /\ 15 \in ioapic.reg_entries[last.irq]
    /\ 14 \notin ioapic.reg_entries[last.irq]

---------------------------------------------------------------------------
(* The instruction emulator: the MOV handlers.                             *)

\* A 64-bit value is the sequence of its 8 bytes, least significant first.
Val(b1, b2) == <<b1, b2, 0, 0, 0, 0, 0, 0>>

\* the low w bytes of a value, zero-extended
Trunc(v, w) == [k \in 1..8 |-> IF k <= w THEN v[k] ELSE 0]

\* a + b modulo 2^64
RECURSIVE AddCarry(_, _, _, _)
AddCarry(a, b, k, carry) ==
    IF k > 8 THEN <<>>
    ELSE <<(a[k] + b[k] + carry) % 256>>
         \o AddCarry(a, b, k + 1, (a[k] + b[k] + carry) \div 256)

WrappingAdd64(a, b) == AddCarry(a, b, 1, 0)

\* a value as a guest address: a number, or Huge from 2^16 on
AddrOf(v) == IF \E k \in 3..8 : v[k] # 0 THEN Huge ELSE v[1] + 256 * v[2]

\* the register names: the 64-bit register that holds each, the offset of
\* its first byte there and its width
Registers ==
    [ RAX |-> [phys |-> "RAX", off |-> 0, w |-> 8], EAX |-> [phys |-> "RAX", off |-> 0, w |-> 4],
      AX  |-> [phys |-> "RAX", off |-> 0, w |-> 2], AL  |-> [phys |-> "RAX", off |-> 0, w |-> 1],
      RBX |-> [phys |-> "RBX", off |-> 0, w |-> 8], EBX |-> [phys |-> "RBX", off |-> 0, w |-> 4],
      BX  |-> [phys |-> "RBX", off |-> 0, w |-> 2], BH  |-> [phys |-> "RBX", off |-> 1, w |-> 1] ]

\* CpuStateManager::read_reg
ReadReg(c, name) ==
    LET r == Registers[name]
    IN  [k \in 1..8 |-> IF k <= r.w THEN c.regs[r.phys][k + r.off] ELSE 0]

\* CpuStateManager::write_reg (a 32-bit write clears the upper half)
WriteReg(c, name, v) ==
    LET r == Registers[name]
        old == c.regs[r.phys]
        new == [k \in 1..8 |->
                  IF k > r.off /\ k <= r.off + r.w THEN v[k - r.off]
                  ELSE IF r.w = 4 THEN 0 ELSE old[k]]
    IN  [c EXCEPT !.regs[r.phys] = new]

\* PlatformEmulator::read_memory of w bytes: the bytes, or an error
PlatformReadMemory(m, gva, w) ==
    IF gva >= Huge \/ ~RangeOk(gva, w) THEN [ok |-> FALSE, value |-> Val(0, 0)]
    ELSE [ok |-> TRUE, value |-> [k \in 1..8 |-> IF k <= w THEN MemByte(m, gva + k - 1) ELSE 0]]

RECURSIVE WriteBytes(_, _, _, _)
WriteBytes(m, gva, v, w) ==
    IF w = 0 THEN m
    ELSE WriteLE(WriteBytes(m, gva, v, w - 1), gva + w - 1, 1, v[w])

\* PlatformEmulator::write_memory of the low w bytes of a value
PlatformWriteMemory(m, gva, v, w) ==
    IF gva >= Huge \/ ~RangeOk(gva, w) THEN [ok |-> FALSE, mem |-> m]
    ELSE [ok |-> TRUE, mem |-> WriteBytes(m, gva, v, w)]

\* the address of a memory operand: base + index + displacement (the
\* register None reads as 0)
MemoryOperandAddress(op, c) ==
    LET reg(name) == IF name = "None" THEN Val(0, 0) ELSE ReadReg(c, name)
    IN  AddrOf(WrappingAdd64(WrappingAdd64(reg(op.base), reg(op.index)), Val(op.disp, 0)))

\* get_op: operand op fetched as a w-byte value
GetOp(op, w, c, m) ==
    IF op.kind = "reg" THEN [ok |-> TRUE, value |-> ReadReg(c, op.reg)]
    ELSE IF op.kind = "imm" THEN [ok |-> TRUE, value |-> Trunc(op.imm, w)]
    ELSE PlatformReadMemory(m, MemoryOperandAddress(op, c), w)

\* set_op: a w-byte value stored into operand op
SetOp(op, w, c, m, value) ==
    IF op.kind = "reg" THEN [ok |-> TRUE, cpu |-> WriteReg(c, op.reg, value), mem |-> m]
    ELSE LET r == PlatformWriteMemory(m, MemoryOperandAddress(op, c), value, w)
         IN  [ok |-> r.ok, cpu |-> c, mem |-> r.mem]

\* the sixteen handlers: the width each is instantiated with (w), the kinds
\* of its operands and the width of its destination operand
MovHandlers ==
    [ Mov_r8_rm8     |-> [w |-> 1, dst |-> "r",  src |-> "rm",  dstw |-> 1],
      Mov_r8_imm8    |-> [w |-> 1, dst |-> "r",  src |-> "imm", dstw |-> 1],
      Mov_r16_rm16   |-> [w |-> 2, dst |-> "r",  src |-> "rm",  dstw |-> 2],
      Mov_r16_imm16  |-> [w |-> 2, dst |-> "r",  src |-> "imm", dstw |-> 2],
      Mov_r32_rm32   |-> [w |-> 4, dst |-> "r",  src |-> "rm",  dstw |-> 4],
      Mov_r32_imm32  |-> [w |-> 4, dst |-> "r",  src |-> "imm", dstw |-> 4],
      Mov_r64_rm64   |-> [w |-> 8, dst |-> "r",  src |-> "rm",  dstw |-> 8],
      Mov_r64_imm64  |-> [w |-> 8, dst |-> "r",  src |-> "imm", dstw |-> 8],
      Mov_rm8_imm8   |-> [w |-> 1, dst |-> "rm", src |-> "imm", dstw |-> 1],
      Mov_rm8_r8     |-> [w |-> 1, dst |-> "rm", src |-> "r",   dstw |-> 1],
      Mov_rm16_imm16 |-> [w |-> 2, dst |-> "rm", src |-> "imm", dstw |-> 2],
      Mov_rm16_r16   |-> [w |-> 2, dst |-> "rm", src |-> "r",   dstw |-> 2],
      Mov_rm32_imm32 |-> [w |-> 4, dst |-> "rm", src |-> "imm", dstw |-> 4],
      Mov_rm32_r32   |-> [w |-> 4, dst |-> "rm", src |-> "r",   dstw |-> 4],
      Mov_rm64_imm32 |-> [w |-> 4, dst |-> "rm", src |-> "imm", dstw |-> 8],
      Mov_rm64_r64   |-> [w |-> 8, dst |-> "rm", src |-> "r",   dstw |-> 8] ]

\* (mutant) the instruction pointer set before the operands are moved
MovEmulate_IpFirst(insn, c, m) ==
    LET w == MovHandlers[insn.handler].w
        c1 == [c EXCEPT !.ip = insn.ip]
        src == GetOp(insn.op1, w, c1, m)
        dst == SetOp(insn.op0, w, c1, m, src.value)
    IN  IF ~src.ok THEN [ret |-> "PlatformEmulationError", cpu |-> c1, mem |-> m]
        ELSE IF ~dst.ok THEN [ret |-> "PlatformEmulationError", cpu |-> c1, mem |-> m]
        ELSE [ret |-> "Ok", cpu |-> dst.cpu, mem |-> dst.mem]

\* (mutant) the instruction pointer left where it was
MovEmulate_NoSetIp(insn, c, m) ==
    LET w == MovHandlers[insn.handler].w
        src == GetOp(insn.op1, w, c, m)
        dst == SetOp(insn.op0, w, c, m, src.value)
    IN  IF ~src.ok THEN [ret |-> "PlatformEmulationError", cpu |-> c, mem |-> m]
        ELSE IF ~dst.ok THEN [ret |-> "PlatformEmulationError", cpu |-> c, mem |-> m]
        ELSE [ret |-> "Ok", cpu |-> dst.cpu, mem |-> dst.mem]

\* InstructionHandler::emulate of the MOV handlers (mov_rm_r, mov_rm_imm,
\* mov_r_rm and mov_r_imm have the same body)
MovEmulate(insn, c, m) ==
    LET w == MovHandlers[insn.handler].w
        src == GetOp(insn.op1, w, c, m)
        dst == SetOp(insn.op0, w, c, m, src.value)
    IN  IF ~src.ok THEN [ret |-> "PlatformEmulationError", cpu |-> c, mem |-> m]
        ELSE IF ~dst.ok THEN [ret |-> "PlatformEmulationError", cpu |-> c, mem |-> m]
        ELSE [ret |-> "Ok", cpu |-> [dst.cpu EXCEPT !.ip = insn.ip], mem |-> dst.mem]

\* what the decoder produces: register operands of a width, memory operands
\* ([rax+rax], [rax+124], which an 8-byte access runs over the end of region
\* 0, and [rbx]) and immediates of a width; the last is a sign-extended imm32
RegOperands(w) ==
    {[kind |-> "reg", reg |-> r] :
        r \in {n \in {"RAX", "RBX", "EAX", "EBX", "AX", "BX", "AL", "BH"} : Registers[n].w = w}}

MemOperands ==
    { [kind |-> "mem", base |-> "RAX", index |-> "RAX", disp |-> 0],
      [kind |-> "mem", base |-> "RAX", index |-> "None", disp |-> 124],
      [kind |-> "mem", base |-> "RBX", index |-> "None", disp |-> 0] }

ImmOperands(handler) ==
    IF handler = "Mov_rm64_imm32"
    THEN {[kind |-> "imm", imm |-> <<1, 0, 0, 128, 255, 255, 255, 255>>]}
    ELSE {[kind |-> "imm", imm |-> Trunc(<<68, 51, 34, 145, 68, 51, 34, 17>>,
                                          MovHandlers[handler].w)]}

Operands(handler, kind, w) ==
    IF kind = "imm" THEN ImmOperands(handler)
    ELSE IF kind = "r" THEN RegOperands(w)
    ELSE RegOperands(w) \cup MemOperands

\* the length the decoder finds: 7 bytes with an immediate, 3 without
InsnLen(handler) == IF MovHandlers[handler].src = "imm" THEN 7 ELSE 3

\* the decoded Instruction at instruction pointer ip; Instruction::ip is the
\* post-decode instruction pointer
Decode(handler, op0, op1, ip) ==
    [ handler |-> handler, op0 |-> op0, op1 |-> op1, len |-> InsnLen(handler),
      ip |-> ip + InsnLen(handler) ]

\* MockVMM::new: ip 0x1000, rax = 0x40, rbx = 0x8899aabbccddeeff, and
\* 0x1234567812345678 in memory at rax + rax
InitMov ==
    /\ cpu = [ tag |-> "cpu", ip |-> 4096,
               regs |-> [ RAX |-> Val(64, 0),
                          RBX |-> <<255, 238, 221, 204, 187, 170, 153, 136>> ] ]
    /\ mem = WriteBytes(ZeroMem, 128, <<120, 86, 52, 18, 120, 86, 52, 18>>, 8)
    /\ q = NewQueue(MaxSize)
    /\ iter = NoIter
    /\ chain = NoChain
    /\ last = [op |-> "init"]
    /\ panicked = FALSE
    /\ ioapic = NewIoapic
    /\ ops = 0
    /\ ghost = NoGhost

\* the emulator decodes the instruction at ip and runs its handler
Emulate ==
    /\ ops < MaxInsns
    /\ \E handler \in DOMAIN MovHandlers :
         \E op0 \in Operands(handler, MovHandlers[handler].dst, MovHandlers[handler].dstw),
            op1 \in Operands(handler, MovHandlers[handler].src, MovHandlers[handler].w) :
            \E insn \in {Decode(handler, op0, op1, cpu.ip)} :
               \E r \in {MovEmulate(insn, cpu, mem)} :
                  /\ cpu' = r.cpu
                  /\ mem' = r.mem
                  /\ last' = [op |-> "emulate", insn |-> insn, ret |-> r.ret]
    /\ ops' = ops + 1
    /\ UNCHANGED <<q, iter, chain, panicked, ioapic, ghost>>

NextMov == Emulate

SpecMov == InitMov /\ [][NextMov]_vars

\* a w-byte access to a memory operand fails on the platform
AccessFails(op, w, c) ==
    /\ op.kind = "mem"
    /\ LET a == MemoryOperandAddress(op, c)
       IN  a >= Huge \/ \E x \in a..(a + w - 1) : ~AddressInRange(x)

\* C14: for every MOV variant of operand width W, a successful emulate
\* fetches operand 1 as a W-byte value from the register and memory state
\* before the instruction, stores that value into operand 0, and sets the
\* instruction pointer to the old one plus the instruction's length.
C14_MovMoves ==
    [][ (last'.op = "emulate" /\ last'.ret = "Ok") =>
          LET insn == last'.insn
              w == MovHandlers[insn.handler].w
              fetched == GetOp(insn.op1, w, cpu, mem).value
          IN  /\ fetched = Trunc(fetched, w)
              /\ insn.op0.kind = "reg" => ReadReg(cpu', insn.op0.reg) = fetched
              /\ insn.op0.kind = "mem" =>
                    \A k \in 1..w :
                       MemByte(mem', MemoryOperandAddress(insn.op0, cpu) + k - 1) = fetched[k]
              /\ cpu'.ip = cpu.ip + insn.len
      ]_vars

\* C14 witness: mov rax, [rax+rax] has loaded the 8 bytes at the old
\* rax + rax into rax and advanced the instruction pointer by 3
C14_Witness ==
    /\ last.op = "emulate" /\ last.ret = "Ok"
    /\ last.insn.handler = "Mov_r64_rm64"
    /\ last.insn.op0 = [kind |-> "reg", reg |-> "RAX"]
    /\ last.insn.op1 = [kind |-> "mem", base |-> "RAX", index |-> "RAX", disp |-> 0]
    /\ cpu.regs.RAX = <<120, 86, 52, 18, 120, 86, 52, 18>>
    /\ cpu.ip = 4099

\* C15: when the platform fails while operand 1 is fetched, emulate returns
\* PlatformEmulationError and neither the destination operand nor the
\* instruction pointer has changed; when it fails while operand 0 is stored,
\* emulate returns PlatformEmulationError and the instruction pointer has not
\* changed.
C15_MovPlatformError ==
    [][ last'.op = "emulate" =>
          LET insn == last'.insn
              w == MovHandlers[insn.handler].w
          IN  /\ AccessFails(insn.op1, w, cpu) =>
                    /\ last'.ret = "PlatformEmulationError"
                    /\ cpu' = cpu
                    /\ mem' = mem
              /\ (~AccessFails(insn.op1, w, cpu) /\ AccessFails(insn.op0, w, cpu)) =>
                    /\ last'.ret = "PlatformEmulationError"
                    /\ cpu'.ip = cpu.ip
      ]_vars

\* C15 witness: after a first instruction, a store of ax to [rbx] has failed
\* and left the instruction pointer after the first instruction
C15_Witness ==
    /\ last.op = "emulate" /\ last.ret = "PlatformEmulationError"
    /\ last.insn.op0 = [kind |-> "mem", base |-> "RBX", index |-> "None", disp |-> 0]
    /\ last.insn.op1 = [kind |-> "reg", reg |-> "AX"]
    /\ ops = 2
    /\ cpu.ip = 4099

\* C16: checked_new returns nothing when the start index is >= the table
\* size, when the descriptor table cannot be read, when the head's buffer
\* [addr, addr + len) does not lie within guest memory, or when the head has
\* NEXT set with next >= table size; otherwise it returns a chain whose table
\* base, table size and index are the arguments and whose TTL is the table
\* size.
C16_CheckedNewIffConditions ==
    last.op = "checked_new" =>
       LET head == ReadDesc(mem, DescBase + 16 * last.index)
           fails == \/ last.index >= last.table_size
                    \/ ~WhollyMapped(DescBase, 16 * last.table_size)
                    \/ ~WhollyMapped(head.addr, head.len)
                    \/ (HasFlag(head.flags, VIRTQ_DESC_F_NEXT) /\ head.next >= last.table_size)
       IN  /\ fails => ~last.ok
           /\ ~fails => /\ last.ok
                        /\ chain.tag = "chain"
                        /\ chain.desc_table = DescBase
                        /\ chain.table_size = last.table_size
                        /\ chain.index = last.index
                        /\ chain.ttl = last.table_size

\* C17: new_from_indirect returns InvalidIndirectDescriptor when the current
\* descriptor lacks INDIRECT, GuestMemoryError when the first entry of the
\* indirect table is outside guest memory, InvalidChain when the resulting
\* chain is not valid, and otherwise a chain whose table base is the indirect
\* buffer address, whose table size and TTL are len / 16, whose index is 0,
\* and whose iteration yields the entries of the indirect table in link
\* order starting at entry 0.
C17_NewFromIndirect ==
    /\ last.op = "new_from_indirect" =>
          LET d == last.parent
              n == d.len \div 16
              first == ReadDesc(mem, d.addr)
              valid == /\ WhollyMapped(first.addr, first.len)
                       /\ HasFlag(first.flags, VIRTQ_DESC_F_NEXT) => first.next < n
          IN  IF ~HasFlag(d.flags, VIRTQ_DESC_F_INDIRECT)
              THEN ~last.ok /\ last.err = "InvalidIndirectDescriptor"
              ELSE IF ~WhollyMapped(d.addr, 16)
              THEN ~last.ok /\ last.err = "GuestMemoryError"
              ELSE IF ~valid
              THEN ~last.ok /\ last.err = "InvalidChain"
              ELSE /\ last.ok
                   /\ chain.desc_table = d.addr
                   /\ chain.table_size = n /\ chain.ttl = n
                   /\ chain.index = 0
    /\ ( /\ chain.tag = "chain" /\ ghost.via = "new_from_indirect"
         /\ ChainPath # <<-1>> ) => ChainYieldsPath

---------------------------------------------------------------------------
(* Queue lifecycle: enable and reset.                                      *)

\* Queue::enable: the queue, and whether the remap hook's unwrap panicked
\* (the three ring bases are translated in turn)
EnableResult(qq, set) ==
    IF ~set
    THEN [ q |-> [qq EXCEPT !.ready = FALSE, !.desc_table = 0,
                            !.avail_ring = 0, !.used_ring = 0],
           panic |-> FALSE ]
    ELSE IF ~qq.iommu
    THEN [q |-> [qq EXCEPT !.ready = TRUE], panic |-> FALSE]
    ELSE LET d == IommuTranslate(qq.desc_table)
             a == IommuTranslate(qq.avail_ring)
             u == IommuTranslate(qq.used_ring)
             q0 == [qq EXCEPT !.ready = TRUE]
         IN  IF ~IsSome(d) THEN [q |-> q0, panic |-> TRUE]
             ELSE IF ~IsSome(a)
             THEN [q |-> [q0 EXCEPT !.desc_table = Unwrap(d)], panic |-> TRUE]
             ELSE IF ~IsSome(u)
             THEN [ q |-> [q0 EXCEPT !.desc_table = Unwrap(d), !.avail_ring = Unwrap(a)],
                    panic |-> TRUE ]
             ELSE [ q |-> [q0 EXCEPT !.desc_table = Unwrap(d), !.avail_ring = Unwrap(a),
                                     !.used_ring = Unwrap(u)],
                    panic |-> FALSE ]

\* Queue::reset
ResetResult(qq) ==
    [qq EXCEPT !.ready = FALSE, !.size = qq.max_size, !.next_avail = 0, !.next_used = 0]

\* MSI-X vectors the driver may select for the queue
Vectors == {0, 1}

InitReset ==
    /\ q = NewQueue(MaxSize)
    /\ mem = ZeroMem
    /\ iter = NoIter
    /\ chain = NoChain
    /\ last = [op |-> "init"]
    /\ panicked = FALSE
    /\ ioapic = NewIoapic
    /\ cpu = NoCpu
    /\ ops = 0
    /\ ghost = [prev |-> None, rec |-> None]

\* the transport stores the driver's queue_msix_vector
SetVector ==
    /\ \E v \in Vectors : q' = [q EXCEPT !.vector = v]
    /\ last' = [op |-> "set_vector"]
    /\ UNCHANGED <<cpu, ioapic, mem, iter, chain, panicked, ops, ghost>>

Enable ==
    /\ ~panicked
    /\ \E set \in BOOLEAN :
          LET r == EnableResult(q, set)
          IN  /\ q' = r.q
              /\ panicked' = r.panic
              /\ last' = [op |-> "enable", set |-> set]
    /\ UNCHANGED <<cpu, ioapic, mem, iter, chain, ops, ghost>>

Reset ==
    /\ ~panicked
    /\ q' = ResetResult(q)
    /\ last' = [op |-> "reset"]
    /\ UNCHANGED <<cpu, ioapic, mem, iter, chain, panicked, ops, ghost>>

NextReset ==
    \/ SetReady \/ SetSize \/ SetVector
    \/ SetDescTable \/ SetAvailRing \/ SetUsedRing
    \/ Enable \/ SetEventIdx \/ NeedsNotification
    \/ Reset

SpecReset == InitReset /\ [][NextReset]_vars

\* C18: after any sequence of queue operations, reset returns the queue to
\* the state of a queue freshly created with the same max_size: size =
\* max_size, not ready, next_avail = 0, next_used = 0, and ring addresses,
\* vector, event-index flag and last-signalled used index as at creation.
C18_ResetRestoresInitial ==
    [][ last'.op = "reset"
        => LET fresh == NewQueue(q.max_size)
           IN  /\ q'.max_size = q.max_size
               /\ q'.size = fresh.size
               /\ q'.ready = fresh.ready
               /\ q'.next_avail = fresh.next_avail
               /\ q'.next_used = fresh.next_used
               /\ q'.desc_table = fresh.desc_table
               /\ q'.avail_ring = fresh.avail_ring
               /\ q'.used_ring = fresh.used_ring
               /\ q'.vector = fresh.vector
               /\ q'.event_idx = fresh.event_idx
               /\ q'.signalled_used = fresh.signalled_used
      ]_vars

\* C19: go_to_previous_position decrements next_avail by exactly 1 modulo
\* 2^16 (0 becomes 65535) and changes nothing else; after iter has yielded a
\* chain, go_to_previous_position and then iter again (guest memory as it
\* was) yields that chain again: same head index, same descriptors.
C19_GoToPreviousPosition ==
    [][ /\ last'.op = "go_to_previous_position"
           => /\ q' = [q EXCEPT !.next_avail = (q.next_avail + U16 - 1) % U16]
              /\ mem' = mem /\ iter' = iter /\ chain' = chain /\ panicked' = panicked
        /\ ( /\ last'.op = "avail_next"
             /\ ghost.tag = "iteration" /\ ghost.reads = 0
             /\ ghost.redo.tag = "chain" )
           => last'.ret = Some(ghost.redo)
      ]_vars

\* C20: for a queue that is not valid (is_valid is false, for example
\* because the queue is not marked ready), the iterator returned by iter
\* yields no descriptor chain and leaves next_avail unchanged, whatever the
\* available ring and the descriptor table contain.
C20_InvalidQueueYieldsNothing ==
    [][ (last'.op = "avail_next" /\ ~QueueIsValid(q))
        => /\ ~IsSome(last'.ret)
           /\ q'.next_avail = q.next_avail
      ]_vars

---------------------------------------------------------------------------
(* Queue::update_avail_event.                                              *)

\* offsets the u16 expression 4 + actual_size * 8 can evaluate to, None for
\* the arithmetic-overflow panic of a build with overflow checks: a build
\* without them wraps
AvailEventOffsets(qq) ==
    LET off == 4 + ActualSize(qq) * 8
    IN  IF off < U16 THEN {Some(off)} ELSE {Some(off % U16), None}

\* Queue::update_avail_event, for one value of the offset expression: the
\* memory afterwards and whether the call panicked (the overflow, or
\* write_obj(..).unwrap() on an address that cannot hold two bytes)
UpdateAvailEventResult(qq, m, off) ==
    IF ~IsSome(CheckedOffset(qq.avail_ring, 2)) THEN [mem |-> m, panic |-> FALSE]
    ELSE IF ~RangeOk(qq.avail_ring + 2, 2) THEN [mem |-> m, panic |-> FALSE]
    ELSE IF ~IsSome(off) THEN [mem |-> m, panic |-> TRUE]
    ELSE LET last_index == ReadU16(m, qq.avail_ring + 2)
             a == CheckedOffset(qq.used_ring, Unwrap(off))
         IN  IF ~IsSome(a) THEN [mem |-> m, panic |-> FALSE]
             ELSE IF ~RangeOk(Unwrap(a), 2) THEN [mem |-> m, panic |-> TRUE]
             ELSE [mem |-> WriteLE(m, Unwrap(a), 2, last_index), panic |-> FALSE]

\* queue sizes and maximum sizes of the avail_event runs: small ones, and
\* the two largest powers of two a 16-bit size can hold with their divisor
EventSizes == {1, 2, MaxSize, U16 \div 8, U16 \div 2}
EventMaxSizes == {MaxSize, U16 \div 2}

\* available-ring bases: the standard one, one whose idx field straddles the
\* end of region 0, one past the end of memory
EventAvailBases == {AvailBase, R0End - 3, R1End}

\* used-ring bases: the standard one, and the two that put the avail_event
\* field of a one-entry ring on the last byte of region 0 and just behind it
EventUsedBases == {UsedBase, R0End - 13, R0End - 12}

InitEvent ==
    /\ \E size \in EventSizes, max_size \in EventMaxSizes,
          avail \in EventAvailBases, used \in EventUsedBases :
          q = [ConfiguredQueue(size, avail, used) EXCEPT !.max_size = max_size]
    /\ mem = ZeroMem
    /\ iter = NoIter
    /\ chain = NoChain
    /\ last = [op |-> "init"]
    /\ panicked = FALSE
    /\ ioapic = NewIoapic
    /\ cpu = NoCpu
    /\ ops = 0
    /\ ghost = NoGhost

UpdateAvailEvent ==
    /\ ~panicked
    /\ iter.tag = "none"
    /\ \E off \in AvailEventOffsets(q) :
          LET r == UpdateAvailEventResult(q, mem, off)
          IN  /\ mem' = r.mem
              /\ panicked' = r.panic
              /\ last' = [op |-> "update_avail_event", panic |-> r.panic]
    /\ UNCHANGED <<cpu, ioapic, q, iter, chain, ops, ghost>>

NextEvent == DriverSetAvailIdx \/ UpdateAvailEvent

SpecEvent == InitEvent /\ [][NextEvent]_vars

\* C21: for every valid queue size (a power of two from 1 to 32768, at most
\* max_size), update_avail_event stores the value of the available ring's
\* idx field into the 16-bit avail_event field at used_ring + 4 + 8 * size,
\* and changes no other byte and no field of the queue; when the available
\* ring's idx cannot be read it writes nothing.
C21_UpdateAvailEvent ==
    [][ ( /\ last'.op = "update_avail_event"
          /\ IsPowerOfTwo(q.size) /\ q.size <= q.max_size )
        => LET field == q.used_ring + 4 + 8 * q.size
           IN  /\ q' = q
               /\ \A a \in (DOMAIN mem) \cup (DOMAIN mem') :
                     a \notin {field, field + 1} => MemByte(mem', a) = MemByte(mem, a)
               /\ WhollyMapped(q.avail_ring + 2, 2)
                     => (WhollyMapped(field, 2)
                           => ReadU16(mem', field) = ReadU16(mem, q.avail_ring + 2))
               /\ ~WhollyMapped(q.avail_ring + 2, 2) => mem' = mem
      ]_vars

---------------------------------------------------------------------------
(* A redirection-table entry written and read back by the guest.           *)

\* the guest selects register sel and writes val through IOWIN
GuestWriteReg(io, sel, val) ==
    BusWriteResult(BusWriteResult(io, IOREGSEL_OFF, 4, Bits(sel)).io, IOWIN_OFF, 4, val).io

\* the guest selects register sel and reads IOWIN
GuestReadReg(io, sel) ==
    BusReadResult(BusWriteResult(io, IOREGSEL_OFF, 4, Bits(sel)).io, IOWIN_OFF, 4, {}).data

\* pins of the round trips: the first, one in the middle, the last
RtePins == {0, 16, NUM_IOAPIC_PINS - 1}

\* 64-bit values of the round trips: 0, all ones, the two read-only bits
\* alone, a level-triggered unmasked vector 0x30, and a value with bits on
\* both sides of each half and of the read-only bits
RteValues == {{}, 0..63, {12, 14}, {4, 5, 15}, {0, 11, 13, 15, 31, 32, 63}}

\* the guest writes both halves of entry pin (the low one first, or the high
\* one first) and reads both halves back
RteWriteRead ==
    /\ ~panicked
    /\ ops < MaxIoOps
    /\ \E pin \in RtePins, v \in RteValues, low_first \in BOOLEAN :
          LET lo == IOWIN_OFF + IOWIN_SCALE * pin
              hi == lo + 1
              vlo == v \cap 0..31
              vhi == Shr(v, 32)
          IN  \E io1 \in {IF low_first
                            THEN GuestWriteReg(GuestWriteReg(ioapic, lo, vlo), hi, vhi)
                            ELSE GuestWriteReg(GuestWriteReg(ioapic, hi, vhi), lo, vlo)} :
                 LET rlo == GuestReadReg(io1, lo)
                     rhi == GuestReadReg(io1, hi)
                 IN  /\ ioapic' = [io1 EXCEPT !.reg_sel = Bits(hi)]
                     /\ last' = [op |-> "rte_write_read", pin |-> pin, v |-> v,
                                 low_first |-> low_first,
                                 read |-> rlo \cup Shl(rhi, 32, 64)]
    /\ ops' = ops + 1
    /\ UNCHANGED <<cpu, mem, q, iter, chain, panicked, ghost>>

NextRte == RteWriteRead \/ ServiceIrq

SpecRte == InitIoapic /\ [][NextRte]_vars

\* C22: writing the low 32 bits of v through register 0x10 + 2i and the high
\* 32 bits through register 0x11 + 2i, in either order, and reading both
\* registers back yields v on every bit except the read-only bits 12 and 14,
\* which read as they were before the writes.
C22_RteRoundTrip ==
    [][ last'.op = "rte_write_read"
        => LET old == ioapic.reg_entries[last'.pin]
           IN  last'.read = (last'.v \ {12, 14}) \cup (old \cap {12, 14})
      ]_vars

\* C22 witness: a round trip, high half first, of a value without bit 14 on
\* a pin whose remote IRR was set: bit 14 reads as 1
C22_Witness ==
    /\ last.op = "rte_write_read"
    /\ ~last.low_first
    /\ last.v = {0, 11, 13, 15, 31, 32, 63}
    /\ last.read = last.v \cup {14}

---------------------------------------------------------------------------
(* The direct registers: ID, version, arbitration ID.                      *)

\* values the guest writes: 0, 1 and 2 (as selectors the ID, the version and
\* the arbitration ID), 0x10 (as a selector pin 0 low), 0x0a00_0001 (ID 0xa;
\* as a selector the version), 0x1100_0008 (ID 1, a bit above the ID field;
\* an unmasked vector 8), 0xffff_ffff
RegValues == {{}, Bits(1), Bits(2), Bits(16), {0, 25, 27}, {3, 24, 28}, 0..31}

RegOffsets == {IOREGSEL_OFF, IOWIN_OFF}

InitRegs ==
    /\ mem = ZeroMem
    /\ q = NewQueue(MaxSize)
    /\ iter = NoIter
    /\ chain = NoChain
    /\ last = [op |-> "init"]
    /\ panicked = FALSE
    /\ ioapic = NewIoapic
    /\ cpu = NoCpu
    /\ ops = 0
    /\ ghost = [idw |-> None, wrote_version |-> FALSE, wrote_ro |-> FALSE]

\* BusDevice::write of four bytes; the history keeps the last value written
\* with the ID register selected, whether a write was made with the version
\* register selected, and whether one was made with the version or the
\* arbitration ID register selected since the ID was written
RegWrite ==
    /\ ~panicked
    /\ ops < MaxIoOps
    /\ \E offset \in RegOffsets, value \in RegValues :
       \E r \in {BusWriteResult(ioapic, offset, 4, value)} :
          LET win == offset = IOWIN_OFF
              id == win /\ ioapic.reg_sel = Bits(IOAPIC_REG_ID)
              ro == win /\ ioapic.reg_sel \in {Bits(IOAPIC_REG_VERSION),
                                               Bits(IOAPIC_REG_ARBITRATION_ID)}
          IN  /\ ioapic' = r.io
              /\ panicked' = r.panic
              /\ last' = [op |-> "reg_write", offset |-> offset, value |-> value]
              /\ ghost' = [ idw |-> IF id THEN Some(value) ELSE ghost.idw,
                            wrote_version |->
                                \/ ghost.wrote_version
                                \/ (win /\ ioapic.reg_sel = Bits(IOAPIC_REG_VERSION)),
                            wrote_ro |-> ~id /\ (ghost.wrote_ro \/ ro) ]
    /\ ops' = ops + 1
    /\ UNCHANGED <<cpu, mem, q, iter, chain>>

\* BusDevice::read of four bytes into a zeroed buffer
RegRead ==
    /\ ~panicked
    /\ ops < MaxIoOps
    /\ \E offset \in RegOffsets :
          LET r == BusReadResult(ioapic, offset, 4, {})
          IN  /\ panicked' = r.panic
              /\ last' = [op |-> "reg_read", offset |-> offset, data |-> r.data]
    /\ ops' = ops + 1
    /\ UNCHANGED <<cpu, mem, q, iter, chain, ioapic, ghost>>

NextRegs == RegWrite \/ RegRead \/ ServiceIrq \/ EndOfInterrupt

SpecRegs == InitRegs /\ [][NextRegs]_vars

\* C23: after any sequence of guest writes to IOREGSEL and IOWIN,
\* service_irq and end_of_interrupt calls, reading IOWIN with IOREGSEL =
\* 0x01 returns 0x00170011.
C23_VersionReadOnly ==
    ( /\ last.op = "reg_read" /\ last.offset = IOWIN_OFF
      /\ ioapic.reg_sel = Bits(IOAPIC_REG_VERSION) )
    => last.data = Bits(IOAPIC_VERSION_ID)

\* C23 witness: the version is read after the guest has written the ID and
\* has written through IOWIN with the version register selected
C23_Witness ==
    /\ last.op = "reg_read" /\ last.offset = IOWIN_OFF
    /\ ioapic.reg_sel = Bits(IOAPIC_REG_VERSION)
    /\ ghost.wrote_version
    /\ ioapic.id # {}
    /\ last.data = Bits(IOAPIC_VERSION_ID)

\* C24: after a guest write of v to IOWIN with IOREGSEL = 0x00, reading
\* register 0x00 returns v & 0x0F00_0000 and reading the arbitration ID
\* register 0x02 returns the same; writes to registers 0x01 and 0x02 do not
\* change the ID.
C24_IdRegister ==
    ( /\ last.op = "reg_read" /\ last.offset = IOWIN_OFF
      /\ ioapic.reg_sel \in {Bits(IOAPIC_REG_ID), Bits(IOAPIC_REG_ARBITRATION_ID)}
      /\ IsSome(ghost.idw) )
    => last.data = Unwrap(ghost.idw) \cap 24..27

\* C24 witness: the arbitration ID register reads 0x0100_0000 after the
\* guest wrote 0x1100_0008 to the ID register and then wrote to a read-only
\* register
C24_Witness ==
    /\ last.op = "reg_read" /\ last.offset = IOWIN_OFF
    /\ ioapic.reg_sel = Bits(IOAPIC_REG_ARBITRATION_ID)
    /\ ghost.idw = Some({3, 24, 28})
    /\ ghost.wrote_ro
    /\ last.data = {24}

\* C25: for every MMIO offset other than 0x00 (IOREGSEL) and 0x10 (IOWIN),
\* a 4-byte read yields 0 in the caller's buffer and a 4-byte write is
\* ignored, leaving IOREGSEL, the ID and every redirection-table entry
\* unchanged.
C25_UnknownOffsets ==
    [][ /\ ( /\ last'.op = "read" /\ last'.len = 4
             /\ last'.offset \notin {IOREGSEL_OFF, IOWIN_OFF} )
           => last'.data = {}
        /\ ( /\ last'.op = "write" /\ last'.len = 4
             /\ last'.offset \notin {IOREGSEL_OFF, IOWIN_OFF} )
           => ioapic' = ioapic
      ]_vars

---------------------------------------------------------------------------
(* The filtered iterators: readable() and writable().                      *)

\* DescriptorChain::is_write_only, of a descriptor
IsWriteOnly(d) == HasFlag(d.flags, VIRTQ_DESC_F_WRITE)

\* (mutant) the filter lets every descriptor through
RwIterNext_NoFilter(m, c, writable) ==
    ChainNextResult(m, c)

\* DescriptorChainRwIter::next: the loop over the chain's next() until a
\* descriptor passes the filter or the chain ends
RECURSIVE RwIterNext(_, _, _)
RwIterNext(m, c, writable) ==
    LET r == ChainNextResult(m, c)
    IN  IF r.panic \/ ~IsSome(r.ret) THEN r
        ELSE IF IsWriteOnly(Unwrap(r.ret)) = writable THEN r
        ELSE RwIterNext(m, r.chain, writable)

\* what the driver may store in entry i of the table: a buffer of its own,
\* device-readable or device-writable, last of its chain or linked to the
\* first or the last entry
RwEntryChoices(i) ==
    { [addr |-> GoodBuf.addr + i, len |-> GoodBuf.len, flags |-> f, next |-> 0] :
         f \in {0, VIRTQ_DESC_F_WRITE} }
    \cup { [addr |-> GoodBuf.addr + i, len |-> GoodBuf.len,
            flags |-> VIRTQ_DESC_F_NEXT + f, next |-> n] :
              f \in {0, VIRTQ_DESC_F_WRITE}, n \in {0, TableN - 1} }

InitRw ==
    /\ \E t \in [0..(TableN - 1) -> UNION {RwEntryChoices(i) : i \in 0..(TableN - 1)}] :
          /\ \A i \in 0..(TableN - 1) : t[i] \in RwEntryChoices(i)
          /\ mem = WriteTable(ZeroMem, DescBase, t, 0)
    /\ q = NewQueue(MaxSize)
    /\ iter = NoIter
    /\ chain = NoChain
    /\ last = [op |-> "init"]
    /\ panicked = FALSE
    /\ ioapic = NewIoapic
    /\ cpu = NoCpu
    /\ ops = 0
    /\ ghost = NoGhost

\* checked_new, then readable() or writable() on the chain
RwCreate ==
    /\ ~panicked
    /\ chain.tag = "none" /\ iter.tag = "none"
    /\ \E index \in 0..(TableN - 1), writable \in BOOLEAN :
       \E r \in {CheckedNew(mem, DescBase, TableN, index, FALSE)} :
          /\ IsSome(r.ret)
          /\ chain' = Unwrap(r.ret)
          /\ iter' = [tag |-> "rw", writable |-> writable]
          /\ last' = [op |-> "rw_create", index |-> index, writable |-> writable]
          /\ ghost' = [tag |-> "chain", via |-> "checked_new", made |-> TRUE,
                       table |-> DescBase, n |-> TableN, head |-> index,
                       yielded |-> <<>>]
    /\ UNCHANGED <<cpu, ioapic, mem, q, panicked, ops>>

\* DescriptorChainRwIter::next
RwNext ==
    /\ ~panicked
    /\ iter.tag = "rw"
    /\ ops < TableN + 1
    /\ \E r \in {RwIterNext(mem, chain, iter.writable)} :
          /\ chain' = r.chain
          /\ panicked' = r.panic
          /\ last' = [op |-> "rw_next", ret |-> r.ret, panic |-> r.panic]
          /\ ghost' = [ghost EXCEPT !.yielded =
                          IF IsSome(r.ret) THEN Append(@, Unwrap(r.ret)) ELSE @]
    /\ ops' = ops + 1
    /\ UNCHANGED <<cpu, ioapic, mem, q, iter>>

NextRw == RwCreate \/ RwNext

SpecRw == InitRw /\ [][NextRw]_vars

\* the descriptors of s whose WRITE flag is set (w) or not set (~w)
RwFilter(s, w) == SelectSeq(s, LAMBDA d : IsWriteOnly(d) = w)

\* C26 (as claimed): readable() yields only descriptors whose WRITE flag is
\* set and writable() only descriptors whose WRITE flag is not set, each in
\* chain order, each descriptor of the chain appearing in exactly one of the
\* two.
C26_AsClaimed ==
    iter.tag = "rw" =>
       /\ \A k \in 1..Len(ghost.yielded) : IsWriteOnly(ghost.yielded[k]) = ~iter.writable
       /\ ChainPath # <<-1>> =>
             /\ IsPrefix(ghost.yielded, RwFilter(ChainPathDescs, ~iter.writable))
             /\ (last.op = "rw_next" /\ ~IsSome(last.ret))
                   => ghost.yielded = RwFilter(ChainPathDescs, ~iter.writable)

\* C26 (amended): readable() yields only descriptors whose WRITE flag is not
\* set and writable() only descriptors whose WRITE flag is set, each in
\* chain order, each descriptor of the chain appearing in exactly one of the
\* two: drained, the iterator has yielded the chain's descriptors that pass
\* its test, in link order.
C26_RwIterators ==
    iter.tag = "rw" =>
       /\ \A k \in 1..Len(ghost.yielded) : IsWriteOnly(ghost.yielded[k]) = iter.writable
       /\ ChainPath # <<-1>> =>
             /\ IsPrefix(ghost.yielded, RwFilter(ChainPathDescs, iter.writable))
             /\ (last.op = "rw_next" /\ ~IsSome(last.ret))
                   => ghost.yielded = RwFilter(ChainPathDescs, iter.writable)

\* C26 witness: writable() has been drained over a chain of three
\* descriptors, the middle one device-readable, and has yielded the other two
C26_Witness ==
    /\ iter.tag = "rw" /\ iter.writable
    /\ last.op = "rw_next" /\ ~IsSome(last.ret)
    /\ ChainPath # <<-1>> /\ Len(ChainPath) = 3
    /\ ~IsWriteOnly(ChainPathDescs[2])
    /\ ghost.yielded = <<ChainPathDescs[1], ChainPathDescs[3]>>

---------------------------------------------------------------------------
(* A well-behaved driver and a draining device on the available ring.      *)

\* sizes of a valid queue
FifoSizes == {s \in 1..MaxSize : IsPowerOfTwo(s)}

\* heads a well-behaved driver may publish: the ones checked_new accepts
FifoHeads(qq, m) ==
    {h \in 0..(ActualSize(qq) - 1) :
        IsSome(CheckedNew(m, qq.desc_table, ActualSize(qq), h, qq.iommu).ret)}

\* The history: the heads whose publication is complete, the head whose slot
\* is written and whose idx increment is still to come, the heads yielded,
\* how many heads were published when the live iterator was created, and
\* whether that iterator has returned nothing.
InitFifo ==
    /\ \E size \in FifoSizes, na \in Cursors :
          /\ q = [ConfiguredQueue(size, AvailBase, UsedBase) EXCEPT !.next_avail = na]
          /\ mem = WriteLE(WriteTable(ZeroMem, DescBase, AvailTable, 0), AvailBase + 2, 2, na)
    /\ iter = NoIter
    /\ chain = NoChain
    /\ last = [op |-> "init"]
    /\ panicked = FALSE
    /\ ioapic = NewIoapic
    /\ cpu = NoCpu
    /\ ops = 0
    /\ ghost = [published |-> <<>>, pending |-> None, yielded |-> <<>>,
                target |-> 0, drained |-> FALSE]

\* the driver writes a head into the ring slot of avail.idx, while fewer
\* than size heads are outstanding
FifoWriteSlot ==
    /\ ~panicked
    /\ ~IsSome(ghost.pending)
    /\ Len(ghost.published) < MaxReads
    /\ Len(ghost.published) - Len(ghost.yielded) < q.size
    /\ \E head \in FifoHeads(q, mem) :
          LET idx == ReadU16(mem, q.avail_ring + 2)
          IN  /\ mem' = WriteLE(mem, q.avail_ring + 4 + 2 * (idx % q.size), 2, head)
              /\ last' = [op |-> "driver_write_slot", head |-> head]
              /\ ghost' = [ghost EXCEPT !.pending = Some(head)]
    /\ UNCHANGED <<cpu, ioapic, q, iter, chain, panicked, ops>>

\* the driver increments avail.idx
FifoIncrementIdx ==
    /\ ~panicked
    /\ IsSome(ghost.pending)
    /\ mem' = WriteLE(mem, q.avail_ring + 2, 2, WrapAdd16(ReadU16(mem, q.avail_ring + 2), 1))
    /\ last' = [op |-> "driver_increment_idx"]
    /\ ghost' = [ghost EXCEPT !.published = Append(@, Unwrap(ghost.pending)),
                              !.pending = None]
    /\ UNCHANGED <<cpu, ioapic, q, iter, chain, panicked, ops>>

\* Queue::iter
FifoIter ==
    /\ ~panicked
    /\ iter.tag = "none"
    /\ iter' = QueueIter(q, mem)
    /\ last' = [op |-> "iter"]
    /\ ghost' = [ghost EXCEPT !.target = Len(ghost.published), !.drained = FALSE]
    /\ UNCHANGED <<cpu, ioapic, mem, q, chain, panicked, ops>>

\* AvailIter::next, until it returns nothing
FifoNext ==
    /\ ~panicked
    /\ iter.tag = "iter"
    /\ ~ghost.drained
    /\ \E r \in {AvailIterNext(iter, q.next_avail, mem)} :
          /\ iter' = r.iter
          /\ q' = [q EXCEPT !.next_avail = r.next_avail]
          /\ chain' = IF IsSome(r.ret) THEN Unwrap(r.ret) ELSE chain
          /\ panicked' = r.panic
          /\ last' = [op |-> "avail_next", ret |-> r.ret, panic |-> r.panic]
          /\ ghost' = [ghost EXCEPT
                          !.yielded = IF IsSome(r.ret) THEN Append(@, Unwrap(r.ret).index)
                                      ELSE @,
                          !.drained = ~IsSome(r.ret)]
    /\ UNCHANGED <<cpu, ioapic, mem, ops>>

\* the drained iterator is dropped
FifoDrop ==
    /\ ~panicked
    /\ iter.tag = "iter"
    /\ ghost.drained
    /\ iter' = NoIter
    /\ chain' = NoChain
    /\ last' = [op |-> "iter_drop"]
    /\ ghost' = [ghost EXCEPT !.drained = FALSE]
    /\ UNCHANGED <<cpu, ioapic, mem, q, panicked, ops>>

NextFifo == FifoWriteSlot \/ FifoIncrementIdx \/ FifoIter \/ FifoNext \/ FifoDrop

SpecFifo == InitFifo /\ [][NextFifo]_vars

\* C27: with a driver that publishes valid heads by writing a ring slot and
\* then incrementing avail.idx, never more than size heads outstanding, and
\* a device that calls iter and drains the iterator, every published head is
\* yielded exactly once and in publication order, under every interleaving
\* and across the 16-bit wrap: the heads yielded are at all times the first
\* of the heads published, and a drained iterator leaves none behind of
\* those published before it was created.
C27_PublishedOnceInOrder ==
    /\ ~panicked
    /\ IsPrefix(ghost.yielded, ghost.published)
    /\ ghost.drained => Len(ghost.yielded) >= ghost.target

\* C27 witness: an iterator created at next_avail = 0, after two heads were
\* published and yielded across the wrap, has been drained of a third while
\* the driver was publishing
C27_Witness ==
    /\ iter.tag = "iter" /\ ghost.drained
    /\ Len(ghost.published) = 3
    /\ ghost.yielded = ghost.published
    /\ ghost.yielded[1] # ghost.yielded[2]
    /\ q.next_avail = 2
    /\ IsSome(ghost.pending) \/ ghost.target = 3

---------------------------------------------------------------------------
(* add_used store by store, with a guest reading the used ring.            *)

\* (mutant) the idx store comes first
AddUsedStores_IdxFirst(qq, desc_index, len) ==
    << [addr |-> qq.used_ring + 2, n |-> 2, v |-> WrapAdd16(qq.next_used, 1)],
       [addr |-> UsedElemAddr(qq), n |-> 4, v |-> desc_index],
       [addr |-> UsedElemAddr(qq) + 4, n |-> 4, v |-> len] >>

\* the stores of add_used in program order: id and len into the slot, then,
\* after the release fence, the incremented idx
AddUsedStores(qq, desc_index, len) ==
    << [addr |-> UsedElemAddr(qq), n |-> 4, v |-> desc_index],
       [addr |-> UsedElemAddr(qq) + 4, n |-> 4, v |-> len],
       [addr |-> qq.used_ring + 2, n |-> 2, v |-> WrapAdd16(qq.next_used, 1)] >>

\* descriptor indexes handed to add_used: two in every ring, one in none
PublishIds == {0, 1, MaxSize}

\* the last n elements of a sequence
LastN(s, n) == IF Len(s) <= n THEN s ELSE SubSeq(s, Len(s) - n + 1, Len(s))

\* The ring is empty at idx 0, and at idx 65535 it is the ring that 65535
\* calls add_used(0, 0) leave.  The history: the stores the call in progress
\* has still to make, its arguments, and the last size entries whose
\* publication is complete.
InitPublish ==
    /\ \E size \in FifoSizes, nu \in Cursors :
          /\ q = [ConfiguredQueue(size, AvailBase, UsedBase) EXCEPT !.next_used = nu]
          /\ mem = WriteLE(ZeroMem, UsedBase + 2, 2, nu)
          /\ ghost = [pending |-> <<>>, call |-> None,
                      done |-> [j \in 1..Min(nu, size) |-> [id |-> 0, len |-> 0]]]
    /\ iter = NoIter
    /\ chain = NoChain
    /\ last = [op |-> "init"]
    /\ panicked = FALSE
    /\ ioapic = NewIoapic
    /\ cpu = NoCpu
    /\ ops = 0

\* Queue::add_used is called: the bounds test
PublishCall ==
    /\ ~panicked
    /\ ghost.pending = <<>>
    /\ ops < MaxReads
    /\ \E d \in PublishIds, l \in Lens :
          IF d >= ActualSize(q)
          THEN /\ last' = [op |-> "add_used", desc_index |-> d, len |-> l, ret |-> None]
               /\ ghost' = ghost
          ELSE /\ last' = [op |-> "add_used_call", desc_index |-> d, len |-> l]
               /\ ghost' = [ghost EXCEPT !.pending = AddUsedStores(q, d, l),
                                         !.call = Some([id |-> d, len |-> l])]
    /\ ops' = ops + 1
    /\ UNCHANGED <<cpu, ioapic, mem, q, iter, chain, panicked>>

\* Queue::add_used makes its next store; next_used is incremented after the
\* second one and the call returns after the third
PublishStore ==
    /\ ~panicked
    /\ ghost.pending # <<>>
    /\ \E st \in {Head(ghost.pending)} :
          IF ~RangeOk(st.addr, st.n)
          THEN /\ panicked' = TRUE
               /\ last' = [op |-> "add_used", panic |-> TRUE]
               /\ UNCHANGED <<mem, q, ghost>>
          ELSE /\ panicked' = FALSE
               /\ mem' = WriteLE(mem, st.addr, st.n, st.v)
               /\ q' = IF Len(ghost.pending) = 2
                       THEN [q EXCEPT !.next_used = WrapAdd16(@, 1)] ELSE q
               /\ IF Len(ghost.pending) = 1
                  THEN /\ last' = [op |-> "add_used", ret |-> Some(q.next_used)]
                       /\ ghost' = [pending |-> <<>>, call |-> None,
                                    done |-> LastN(Append(ghost.done, Unwrap(ghost.call)),
                                                   ActualSize(q))]
                  ELSE /\ last' = [op |-> "add_used_store", addr |-> st.addr]
                       /\ ghost' = [ghost EXCEPT !.pending = Tail(@)]
    /\ UNCHANGED <<cpu, ioapic, iter, chain, ops>>

\* the guest reads used.idx = k and then the slots of the last min(k, size)
\* entries, newest first
GuestReadUsed ==
    /\ ~panicked
    /\ last.op # "guest_read_used"
    /\ LET k == ReadU16(mem, q.used_ring + 2)
           slot(e) == q.used_ring + 4 + (e % q.size) * 8
       IN  last' = [op |-> "guest_read_used", idx |-> k,
                    inflight |-> ghost.pending # <<>>,
                    entries |-> [j \in 1..Min(k, q.size) |->
                                    [id |-> ReadU32(mem, slot(k - j)),
                                     len |-> ReadU32(mem, slot(k - j) + 4)]]]
    /\ UNCHANGED <<cpu, ioapic, mem, q, iter, chain, panicked, ops, ghost>>

NextPublish == PublishCall \/ PublishStore \/ GuestReadUsed

SpecPublish == InitPublish /\ [][NextPublish]_vars

\* the slot read holds the j-th newest entry whose publication is complete
FindsPublished(j) ==
    /\ j <= Len(ghost.done)
    /\ last.entries[j] = ghost.done[Len(ghost.done) - j + 1]

\* C28 as claimed: a guest that reads used.idx = k at any point finds each
\* of the last min(k, size) published entries in its slot, with the (id,
\* len) of its add_used call.
C28_AsClaimed ==
    last.op = "guest_read_used" =>
        \A j \in DOMAIN last.entries : FindsPublished(j)

\* C28: add_used stores the element (id, len) before the incremented idx;
\* a guest that reads used.idx = k at any point finds each of the last
\* min(k, size) published entries in its slot with the (id, len) of its
\* add_used call, or each of the last min(k, size - 1) while an add_used
\* call has still to store its idx.
C28_SlotBeforeIdx ==
    last.op = "guest_read_used" =>
        \A j \in DOMAIN last.entries :
            \/ FindsPublished(j)
            \/ last.inflight /\ j = q.size

\* C28 witness: the guest reads idx = 2 while a third call has stored its
\* slot and not its idx, and finds the two entries published before it
C28_Witness ==
    /\ last.op = "guest_read_used"
    /\ last.idx = 2
    /\ q.next_used = 3
    /\ q.size > 2
    /\ last.inflight
    /\ last.entries[1].len # last.entries[2].len
    /\ last.entries[1].id # last.entries[2].id

---------------------------------------------------------------------------
(* Every virtqueue operation, on a queue and a memory the guest chose.     *)

\* the descriptor table: entry 0 linked to entry 1, entry 1 linked to an
\* index no table has, entry 2 alone
OpsTable == [i \in 0..(TableN - 1) |->
               [addr |-> GoodBuf.addr, len |-> GoodBuf.len,
                flags |-> IF i < 2 THEN VIRTQ_DESC_F_NEXT ELSE 0,
                next |-> IF i = 0 THEN 1 ELSE IF i = 1 THEN 2 * MaxSize ELSE 0]]

\* used-ring bases: the standard one, and one whose first slot is outside
\* memory
OpsUsedBases == {UsedBase, R0End - 8}

\* the driver selects the size and the ring addresses, and publishes head 0
\* or nothing
InitOps ==
    /\ \E size \in DriverSizes, avail \in AvailRingBases, used \in OpsUsedBases,
          idx \in {0, 1} :
          /\ q = ConfiguredQueue(size, avail, used)
          /\ mem = WriteLE(WriteTable(ZeroMem, DescBase, OpsTable, 0), avail + 2, 2, idx)
    /\ iter = NoIter
    /\ chain = NoChain
    /\ last = [op |-> "init"]
    /\ panicked = FALSE
    /\ ioapic = NewIoapic
    /\ cpu = NoCpu
    /\ ops = 0
    /\ ghost = NoGhost

\* Queue::iter
OpsIter ==
    /\ ~panicked
    /\ ops < MaxOps
    /\ iter.tag = "none"
    /\ iter' = QueueIter(q, mem)
    /\ last' = [op |-> "iter"]
    /\ ops' = ops + 1
    /\ UNCHANGED <<cpu, ioapic, mem, q, chain, panicked, ghost>>

\* AvailIter::next
OpsAvailNext ==
    /\ ~panicked
    /\ iter.tag = "iter"
    /\ IF last.op = "avail_next" THEN IsSome(last.ret) ELSE TRUE
    /\ \E r \in {AvailIterNext(iter, q.next_avail, mem)} :
          /\ iter' = r.iter
          /\ q' = [q EXCEPT !.next_avail = r.next_avail]
          /\ chain' = IF IsSome(r.ret) THEN Unwrap(r.ret) ELSE chain
          /\ panicked' = r.panic
          /\ last' = [op |-> "avail_next", ret |-> r.ret, panic |-> r.panic]
    /\ UNCHANGED <<cpu, ioapic, mem, ops, ghost>>

\* the iterator is dropped; the chain it yielded stays with the device
OpsIterDrop ==
    /\ ~panicked
    /\ iter.tag = "iter"
    /\ iter' = NoIter
    /\ last' = [op |-> "iter_drop"]
    /\ UNCHANGED <<cpu, ioapic, mem, q, chain, panicked, ops, ghost>>

\* next() on the chain the iterator yielded or new_from_indirect made
OpsChainNext ==
    /\ ~panicked
    /\ chain.tag = "chain"
    /\ IF last.op = "chain_next" THEN IsSome(last.ret) ELSE TRUE
    /\ \E r \in {ChainNextResult(mem, chain)} :
          /\ chain' = r.chain
          /\ panicked' = r.panic
          /\ last' = [op |-> "chain_next", ret |-> r.ret, panic |-> r.panic]
    /\ UNCHANGED <<cpu, ioapic, mem, q, iter, ops, ghost>>

\* DescriptorChain::new_from_indirect on a chain standing on an indirect
\* descriptor
OpsNewFromIndirect ==
    /\ ~panicked
    /\ ops < MaxOps
    /\ \E d \in ParentDescs :
          \E r \in {NewFromIndirect(mem, ParentChain(d))} :
              /\ chain' = IF IsSome(r.ret) THEN Unwrap(r.ret) ELSE NoChain
              /\ panicked' = r.panic
              /\ last' = [op |-> "new_from_indirect", parent |-> d,
                          ok |-> IsSome(r.ret), err |-> r.err, panic |-> r.panic]
    /\ ops' = ops + 1
    /\ UNCHANGED <<cpu, ioapic, mem, q, iter, ghost>>

\* Queue::add_used
OpsAddUsed ==
    /\ ~panicked
    /\ ops < MaxOps
    /\ iter.tag = "none"
    /\ \E d \in {0, MaxSize}, l \in Lens :
          \E r \in {AddUsedResult(q, mem, d, l)} :
              /\ q' = r.q
              /\ mem' = r.mem
              /\ panicked' = r.panic
              /\ last' = [op |-> "add_used", desc_index |-> d, len |-> l,
                          ret |-> r.ret, panic |-> r.panic]
    /\ ops' = ops + 1
    /\ UNCHANGED <<cpu, ioapic, iter, chain, ghost>>

\* Queue::needs_notification
OpsNeedsNotification ==
    /\ ~panicked
    /\ ops < MaxOps
    /\ iter.tag = "none"
    /\ \E used_idx \in {1, U16 - 1}, event_idx \in BOOLEAN :
          \E r \in {NeedsNotificationResult([q EXCEPT !.event_idx = event_idx],
                                            mem, used_idx)} :
              /\ q' = r.q
              /\ last' = [op |-> "needs_notification", used_idx |-> used_idx,
                          ret |-> r.ret, panic |-> FALSE]
    /\ ops' = ops + 1
    /\ UNCHANGED <<cpu, ioapic, mem, iter, chain, panicked, ghost>>

\* Queue::update_avail_event
OpsUpdateAvailEvent ==
    /\ ~panicked
    /\ ops < MaxOps
    /\ iter.tag = "none"
    /\ \E off \in AvailEventOffsets(q) :
          \E r \in {UpdateAvailEventResult(q, mem, off)} :
              /\ mem' = r.mem
              /\ panicked' = r.panic
              /\ last' = [op |-> "update_avail_event", panic |-> r.panic]
    /\ ops' = ops + 1
    /\ UNCHANGED <<cpu, ioapic, q, iter, chain, ghost>>

NextOps ==
    \/ OpsIter \/ OpsAvailNext \/ OpsIterDrop
    \/ OpsChainNext \/ OpsNewFromIndirect
    \/ OpsAddUsed \/ OpsNeedsNotification \/ OpsUpdateAvailEvent

SpecOps == InitOps /\ [][NextOps]_vars

\* C29: no virtqueue operation panics on guest-controlled state: whatever
\* the guest memory holds and whatever size and ring addresses the driver
\* selected, Queue::iter, AvailIter::next, the iteration of a chain,
\* new_from_indirect, add_used, needs_notification and update_avail_event
\* each finish by returning a value, an error or nothing.
C29_NoOperationPanics == ~panicked

---------------------------------------------------------------------------
(* The descriptors a chain yields.                                         *)

\* C30: every descriptor that chain iteration yields, the head and each
\* later one, satisfies the chain validity predicate: its buffer
\* [addr, addr + len) lies wholly within guest memory and, when its NEXT
\* flag is set and it is followed, its next index is less than the table
\* size; and iteration never loads a table entry at an index >= the table
\* size.
C30_YieldedDescriptorsValid ==
    /\ ~(panicked /\ last.op = "chain_next")
    /\ ghost.tag = "chain" =>
          \A k \in 1..Len(ghost.yielded) :
              LET d == ghost.yielded[k]
              IN  /\ WhollyMapped(d.addr, d.len)
                  /\ (k < Len(ghost.yielded) /\ HasFlag(d.flags, VIRTQ_DESC_F_NEXT))
                        => d.next < ghost.n

---------------------------------------------------------------------------
(* The available-ring iterator at an invalid head.                         *)

\* the step is a next() that found a ring slot and rejected its head
RejectsHead ==
    /\ iter.tag = "iter" /\ iter'.tag = "iter"
    /\ last'.op = "avail_next" /\ ~last'.panic /\ ~IsSome(last'.ret)
    /\ iter'.next_index # iter.next_index

\* the state follows a next() of the live iterator that yielded nothing
YieldedNothing ==
    /\ iter.tag = "iter"
    /\ last.op = "avail_next" /\ ~last.panic /\ ~IsSome(last.ret)

\* C31: when the available-ring iterator reaches a head whose descriptor
\* chain is invalid, it skips it and stops: the call yields nothing and
\* does not advance next_avail, and every later next() on the same iterator
\* yields nothing and leaves next_avail where it is.
C31_InvalidHeadStops ==
    [][ /\ RejectsHead => q'.next_avail = q.next_avail
        /\ (YieldedNothing /\ last'.op = "avail_next")
              => (~IsSome(last'.ret) /\ q'.next_avail = q.next_avail) ]_vars

---------------------------------------------------------------------------
(* A level-triggered pin between its service and its EOI.                  *)

\* pins followed, and what the guest writes to the halves of their entries:
\* low halves with vector 0x30 edge-triggered, 0x30 level-triggered and 0x31
\* level-triggered; a high half with destination 1
LevelPins == {0, 16}
LevelLowValues == {Bits(48), Bits(32816), Bits(32817)}
LevelHighValues == {Bits(16777216)}
LevelVectors == {Bits(48), Bits(49)}

\* The history: for each pin, the vector it was serviced with, from the
\* acceptance of its level-triggered MSI until the EOI of that vector.
InitLevel ==
    /\ mem = ZeroMem
    /\ q = NewQueue(MaxSize)
    /\ iter = NoIter
    /\ chain = NoChain
    /\ last = [op |-> "init"]
    /\ panicked = FALSE
    /\ ioapic = NewIoapic
    /\ cpu = NoCpu
    /\ ops = 0
    /\ ghost = [asserted |-> [i \in LevelPins |-> None]]

\* the guest selects a half of an entry through IOREGSEL and writes it
\* through IOWIN
LevelGuestWrite ==
    /\ ~panicked
    /\ ops < MaxIoOps
    /\ \E pin \in LevelPins, high \in BOOLEAN :
       \E val \in IF high THEN LevelHighValues ELSE LevelLowValues :
          /\ ioapic' = GuestWriteReg(ioapic, IOWIN_OFF + IOWIN_SCALE * pin
                                             + (IF high THEN 1 ELSE 0), val)
          /\ last' = [op |-> "guest_write", pin |-> pin, high |-> high, value |-> val]
    /\ ops' = ops + 1
    /\ UNCHANGED <<cpu, mem, q, iter, chain, panicked, ghost>>

\* Ioapic::service_irq
LevelServiceIrq ==
    /\ ~panicked
    /\ ops < MaxIoOps
    /\ \E irq \in LevelPins, kvf \in KvfOutcomes :
       \E r \in {ServiceIrqResult(ioapic, irq, kvf)} :
          /\ ioapic' = r.io
          /\ panicked' = r.panic
          /\ last' = [op |-> "service_irq", irq |-> irq, kvf |-> kvf, ret |-> r.ret]
          /\ ghost' = IF r.io # ioapic /\ trigger_mode(ioapic.reg_entries[irq]) = {0}
                      THEN [ghost EXCEPT !.asserted[irq] =
                                            Some(vector(ioapic.reg_entries[irq]))]
                      ELSE ghost
    /\ ops' = ops + 1
    /\ UNCHANGED <<cpu, mem, q, iter, chain>>

\* Ioapic::end_of_interrupt
LevelEndOfInterrupt ==
    /\ ~panicked
    /\ ops < MaxIoOps
    /\ \E vec \in LevelVectors :
          /\ ioapic' = EndOfInterruptResult(ioapic, vec)
          /\ last' = [op |-> "end_of_interrupt", vec |-> vec,
                      asserted |-> {i \in LevelPins : ghost.asserted[i] = Some(vec)}]
          /\ ghost' = [asserted |-> [i \in LevelPins |->
                                        IF ghost.asserted[i] = Some(vec) THEN None
                                        ELSE ghost.asserted[i]]]
    /\ ops' = ops + 1
    /\ UNCHANGED <<cpu, mem, q, iter, chain, panicked>>

NextLevel == LevelGuestWrite \/ LevelServiceIrq \/ LevelEndOfInterrupt

SpecLevel == InitLevel /\ [][NextLevel]_vars

\* C32: once a level-triggered pin has been serviced with vector v and the
\* MSI accepted, its remote IRR stays set until the next end_of_interrupt(v)
\* and that call clears it, whatever the guest writes to the entry through
\* IOREGSEL and IOWIN between the service and the EOI.
C32_EoiReturnsToIdle ==
    /\ \A i \in LevelPins : IsSome(ghost.asserted[i]) => 14 \in ioapic.reg_entries[i]
    /\ last.op = "end_of_interrupt" =>
          \A i \in last.asserted : 14 \notin ioapic.reg_entries[i]

\* C33: in every state reachable through guest MMIO writes, service_irq and
\* end_of_interrupt, a redirection-table entry whose remote IRR bit (14) is
\* set is level-triggered (bit 15 set).
C33_RemoteIrrLevelOnly ==
    \A i \in 0..(NUM_IOAPIC_PINS - 1) :
        14 \in ioapic.reg_entries[i] => 15 \in ioapic.reg_entries[i]

---------------------------------------------------------------------------
(* The last-signalled used index.                                          *)

\* C34 as claimed: after each call of needs_notification(used_idx), whether
\* EVENT_IDX is negotiated or not and whatever the call returned, the
\* queue's last-signalled used index equals the used_idx passed.
C34_AsClaimed ==
    [][ last'.op = "needs_notification"
        => q'.signalled_used = Some(last'.used_idx) ]_vars

\* C34: after each call of needs_notification(used_idx) with EVENT_IDX
\* negotiated, whatever the call returned, the queue's last-signalled used
\* index equals the used_idx passed; without EVENT_IDX the call leaves the
\* last-signalled used index as it was.
C34_SignalledUsedRecorded ==
    [][ last'.op = "needs_notification"
        => IF q.event_idx
           THEN q'.signalled_used = Some(last'.used_idx)
           ELSE q'.signalled_used = q.signalled_used ]_vars

\* C34 witness: with EVENT_IDX negotiated, a suppressed call has replaced
\* the recorded index by its used_idx
C34_Witness ==
    /\ last.op = "needs_notification"
    /\ q.event_idx
    /\ last.ret = FALSE
    /\ IsSome(ghost.prev) /\ last.used_idx = 2
    /\ q.signalled_used = Some(2)

---------------------------------------------------------------------------
(* The ordering of the device's loads from the available ring.             *)

\* whether Queue::iter orders its load of avail.idx before the loads that
\* follow it: it reads idx with read_obj and issues no fence
IterAcquires == FALSE

\* the memories a load made after the load of avail.idx may be served from:
\* the current one, and without acquire ordering also the one from before
\* the driver's last publication
VisibleMems(m, old) == IF IterAcquires THEN {m} ELSE {m, old}

\* The history: the memory before the driver's last publication, the heads
\* published and the heads of the chains yielded.
InitAcquire ==
    /\ \E size \in FifoSizes, na \in Cursors :
          /\ q = [ConfiguredQueue(size, AvailBase, UsedBase) EXCEPT !.next_avail = na]
          /\ mem = WriteLE(WriteTable(ZeroMem, DescBase, AvailTable, 0), AvailBase + 2, 2, na)
    /\ iter = NoIter
    /\ chain = NoChain
    /\ last = [op |-> "init"]
    /\ panicked = FALSE
    /\ ioapic = NewIoapic
    /\ cpu = NoCpu
    /\ ops = 0
    /\ ghost = [old |-> mem, published |-> <<>>, yielded |-> <<>>]

\* the driver publishes a valid head: it writes the ring slot of avail.idx,
\* then increments avail.idx
AcquireDriverPublish ==
    /\ ~panicked
    /\ ops < MaxOps
    /\ Len(ghost.published) - Len(ghost.yielded) < q.size
    /\ \E head \in FifoHeads(q, mem) :
          LET idx == ReadU16(mem, q.avail_ring + 2)
              m1 == WriteLE(mem, q.avail_ring + 4 + 2 * (idx % q.size), 2, head)
          IN  /\ mem' = WriteLE(m1, q.avail_ring + 2, 2, WrapAdd16(idx, 1))
              /\ last' = [op |-> "driver_publish", head |-> head]
              /\ ghost' = [ghost EXCEPT !.old = mem, !.published = Append(@, head)]
    /\ ops' = ops + 1
    /\ UNCHANGED <<cpu, ioapic, q, iter, chain, panicked>>

\* Queue::iter: the load of avail.idx
AcquireIter ==
    /\ ~panicked
    /\ iter.tag = "none"
    /\ iter' = QueueIter(q, mem)
    /\ last' = [op |-> "iter"]
    /\ UNCHANGED <<cpu, ioapic, mem, q, chain, panicked, ops, ghost>>

\* AvailIter::next: the loads of the ring slot and of the descriptor
AcquireNext ==
    /\ ~panicked
    /\ iter.tag = "iter"
    /\ IF last.op = "avail_next" THEN IsSome(last.ret) ELSE TRUE
    /\ \E visible \in VisibleMems(mem, ghost.old) :
       \E r \in {AvailIterNext(iter, q.next_avail, visible)} :
          /\ iter' = r.iter
          /\ q' = [q EXCEPT !.next_avail = r.next_avail]
          /\ chain' = IF IsSome(r.ret) THEN Unwrap(r.ret) ELSE chain
          /\ panicked' = r.panic
          /\ last' = [op |-> "avail_next", ret |-> r.ret, panic |-> r.panic]
          /\ ghost' = [ghost EXCEPT !.yielded = IF IsSome(r.ret)
                                                THEN Append(@, Unwrap(r.ret).index)
                                                ELSE @]
    /\ UNCHANGED <<cpu, ioapic, mem, ops>>

\* the iterator is dropped
AcquireIterDrop ==
    /\ ~panicked
    /\ iter.tag = "iter"
    /\ iter' = NoIter
    /\ chain' = NoChain
    /\ last' = [op |-> "iter_drop"]
    /\ UNCHANGED <<cpu, ioapic, mem, q, panicked, ops, ghost>>

NextAcquire == AcquireDriverPublish \/ AcquireIter \/ AcquireNext \/ AcquireIterDrop

SpecAcquire == InitAcquire /\ [][NextAcquire]_vars

\* C35: Queue::iter reads the driver's avail.idx with acquire ordering
\* before any ring slot or descriptor is read, so every chain yielded for a
\* head the driver published reflects the ring slot and the descriptor the
\* driver wrote before it incremented avail.idx, never older contents: the
\* heads yielded are the heads published, in order.
C35_YieldsWhatWasPublished == IsPrefix(ghost.yielded, ghost.published)

---------------------------------------------------------------------------
(* Descriptor chains of a queue with an IOMMU remap hook.                  *)

\* what the driver may store in one table entry: a buffer at a bus address
\* the hook translates, alone or linked to any entry of the table
IommuEntryChoices ==
    { [addr |-> IovaBase + GoodBuf.addr, len |-> GoodBuf.len, flags |-> 0, next |-> 0] }
    \cup { [addr |-> IovaBase + GoodBuf.addr + 16 * n, len |-> GoodBuf.len,
            flags |-> VIRTQ_DESC_F_NEXT, next |-> n] : n \in 0..(TableN - 1) }

\* The history: the table index of the descriptor the chain stands on, and
\* the descriptors yielded, each with its table index.
InitIommu ==
    /\ \E t \in [0..(TableN - 1) -> IommuEntryChoices] :
          mem = WriteTable(ZeroMem, DescBase, t, 0)
    /\ q = [NewQueue(MaxSize) EXCEPT !.iommu = TRUE]
    /\ iter = NoIter
    /\ chain = NoChain
    /\ last = [op |-> "init"]
    /\ panicked = FALSE
    /\ ioapic = NewIoapic
    /\ cpu = NoCpu
    /\ ops = 0
    /\ ghost = [at |-> 0, yielded |-> <<>>]

\* DescriptorChain::checked_new with the queue's remap hook
IommuCheckedNew ==
    /\ ~panicked
    /\ chain.tag = "none" /\ last.op = "init"
    /\ \E index \in 0..(TableN - 1) :
       \E r \in {CheckedNew(mem, DescBase, TableN, index, q.iommu)} :
          /\ chain' = IF IsSome(r.ret) THEN Unwrap(r.ret) ELSE NoChain
          /\ panicked' = r.panic
          /\ last' = [op |-> "checked_new", index |-> index, ok |-> IsSome(r.ret)]
          /\ ghost' = [at |-> index, yielded |-> <<>>]
    /\ UNCHANGED <<cpu, ioapic, mem, q, iter, ops>>

\* next() on the live chain
IommuChainNext ==
    /\ ~panicked
    /\ chain.tag = "chain"
    /\ IF last.op = "chain_next" THEN IsSome(last.ret) ELSE TRUE
    /\ \E r \in {ChainNextResult(mem, chain)} :
          /\ chain' = r.chain
          /\ panicked' = r.panic
          /\ last' = [op |-> "chain_next", ret |-> r.ret, panic |-> r.panic]
          /\ ghost' = IF IsSome(r.ret)
                      THEN [at |-> Unwrap(r.ret).next,
                            yielded |-> Append(ghost.yielded,
                                               [index |-> ghost.at, desc |-> Unwrap(r.ret)])]
                      ELSE ghost
    /\ UNCHANGED <<cpu, ioapic, mem, q, iter, ops>>

NextIommu == IommuCheckedNew \/ IommuChainNext

SpecIommu == InitIommu /\ [][NextIommu]_vars

\* C36: when a queue has an IOMMU remap hook, the buffer address of every
\* descriptor that chain iteration yields, the head and each later one, is
\* the hook's translation of the address stored in the descriptor table.
C36_RemapAtEveryFetch ==
    \A k \in 1..Len(ghost.yielded) :
        LET y == ghost.yielded[k]
        IN  Some(y.desc.addr) = IommuTranslate(ReadDesc(mem, DescBase + 16 * y.index).addr)

---------------------------------------------------------------------------
(* The offsets into the available ring, up to the largest queue.           *)

\* valid sizes up to the largest (a quarter and a half of 2^16 among them),
\* and positions of next_avail around the multiples of the large sizes
OffsetSizes == FifoSizes \cup {U16 \div 4, U16 \div 2}
OffsetCursors == {0, 1, U16 \div 4 - 1, U16 \div 2 - 2, U16 \div 2 - 1, U16 - 1}

\* one head is published at next_avail
InitOffsets ==
    /\ \E size \in OffsetSizes, na \in OffsetCursors, event_idx \in BOOLEAN :
          /\ q = [ConfiguredQueue(size, AvailBase, UsedBase) EXCEPT
                     !.max_size = U16 \div 2, !.next_avail = na, !.event_idx = event_idx]
          /\ mem = WriteLE(WriteTable(ZeroMem, DescBase, AvailTable, 0),
                           AvailBase + 2, 2, WrapAdd16(na, 1))
    /\ iter = NoIter
    /\ chain = NoChain
    /\ last = [op |-> "init"]
    /\ panicked = FALSE
    /\ ioapic = NewIoapic
    /\ cpu = NoCpu
    /\ ops = 0
    /\ ghost = NoGhost

\* Queue::iter
OffsetsIter ==
    /\ ~panicked
    /\ iter.tag = "none" /\ last.op # "iter_drop"
    /\ iter' = QueueIter(q, mem)
    /\ last' = [op |-> "iter"]
    /\ UNCHANGED <<cpu, ioapic, mem, q, chain, panicked, ops, ghost>>

\* AvailIter::next, and then the iterator is dropped; slot is the offset of
\* the ring slot the call computed
OffsetsNext ==
    /\ ~panicked
    /\ iter.tag = "iter"
    /\ \E r \in {AvailIterNext(iter, q.next_avail, mem)} :
          /\ iter' = NoIter
          /\ q' = [q EXCEPT !.next_avail = r.next_avail]
          /\ chain' = IF IsSome(r.ret) THEN Unwrap(r.ret) ELSE chain
          /\ panicked' = r.panic
          /\ last' = [op |-> "iter_drop", ret |-> r.ret, panic |-> r.panic,
                      next_index |-> iter.next_index, slot |-> AvailSlotOffset(iter)]
    /\ UNCHANGED <<cpu, ioapic, mem, ops, ghost>>

\* Queue::needs_notification; used_event is the offset of the field the
\* call computes when it reads it (read)
OffsetsNeedsNotification ==
    /\ ~panicked
    /\ iter.tag = "none"
    /\ ops < MaxOps
    /\ \E used_idx \in UsedIdxs :
       \E r \in {NeedsNotificationResult(q, mem, used_idx)} :
          /\ q' = r.q
          /\ last' = [op |-> "needs_notification", used_idx |-> used_idx,
                      ret |-> r.ret, used_event |-> UsedEventOffset(q),
                      read |-> q.event_idx /\ IsSome(q.signalled_used)]
    /\ ops' = ops + 1
    /\ UNCHANGED <<cpu, ioapic, mem, iter, chain, panicked, ghost>>

NextOffsets == OffsetsIter \/ OffsetsNext \/ OffsetsNeedsNotification

SpecOffsets == InitOffsets /\ [][NextOffsets]_vars

\* C37: for every valid queue size (each power of two from 1 to 32768) and
\* every next_avail, the ring slot the iterator reads is at avail_ring + 4 +
\* (next_avail mod size) * 2 and the used_event field needs_notification
\* reads is at avail_ring + 4 + 2 * size: the offsets never overflow or wrap
\* in 16-bit arithmetic.
C37_OffsetsDoNotWrap ==
    /\ last.op = "iter_drop" => last.slot = 4 + (last.next_index % q.size) * 2
    /\ (last.op = "needs_notification" /\ last.read)
          => last.used_event = 4 + 2 * q.size

---------------------------------------------------------------------------
(* Queue::available_descriptors.                                           *)

\* Queue::index_from_memory
IndexFromMemory(ring, m) ==
    IF ~IsSome(CheckedOffset(ring, 2)) THEN [ok |-> FALSE, err |-> "InvalidOffset", v |-> 0]
    ELSE IF ~RangeOk(ring + 2, 2)
    THEN [ok |-> FALSE, err |-> "InvalidRingIndexFromMemory", v |-> 0]
    ELSE [ok |-> TRUE, err |-> "", v |-> ReadU16(m, ring + 2)]

\* (mutant) the two indexes compared for equality
AvailableDescriptorsResult_Equal(qq, m) ==
    LET used == IndexFromMemory(qq.used_ring, m)
        avail == IndexFromMemory(qq.avail_ring, m)
    IN  IF ~used.ok THEN [ok |-> FALSE, err |-> used.err, ret |-> FALSE]
        ELSE IF ~avail.ok THEN [ok |-> FALSE, err |-> avail.err, ret |-> FALSE]
        ELSE [ok |-> TRUE, err |-> "", ret |-> used.v = avail.v]

\* Queue::available_descriptors
AvailableDescriptorsResult(qq, m) ==
    LET used == IndexFromMemory(qq.used_ring, m)
        avail == IndexFromMemory(qq.avail_ring, m)
    IN  IF ~used.ok THEN [ok |-> FALSE, err |-> used.err, ret |-> FALSE]
        ELSE IF ~avail.ok THEN [ok |-> FALSE, err |-> avail.err, ret |-> FALSE]
        ELSE [ok |-> TRUE, err |-> "", ret |-> used.v < avail.v]

\* values of the two idx fields, on both sides of the 16-bit wrap
RingIdxs == {0, 1, 2, U16 - 2, U16 - 1}

\* the driver has published up to size chains more than the device has
\* returned
InitPending ==
    /\ \E size \in FifoSizes, avail \in AvailRingBases \cup {R0End - 3},
          used \in {UsedBase, R0End - 3, R1End}, ai \in RingIdxs, ui \in RingIdxs :
          /\ WrapSub16(ai, ui) <= size
          /\ q = ConfiguredQueue(size, avail, used)
          /\ mem = WriteLE(WriteLE(ZeroMem, avail + 2, 2, ai), used + 2, 2, ui)
    /\ iter = NoIter
    /\ chain = NoChain
    /\ last = [op |-> "init"]
    /\ panicked = FALSE
    /\ ioapic = NewIoapic
    /\ cpu = NoCpu
    /\ ops = 0
    /\ ghost = NoGhost

\* Queue::available_descriptors
AvailableDescriptors ==
    /\ ~panicked
    /\ last.op # "available_descriptors"
    /\ \E r \in {AvailableDescriptorsResult(q, mem)} :
          last' = [op |-> "available_descriptors", ok |-> r.ok, err |-> r.err,
                   ret |-> r.ret]
    /\ UNCHANGED <<cpu, ioapic, mem, q, iter, chain, panicked, ops, ghost>>

NextPending == AvailableDescriptors

SpecPending == InitPending /\ [][NextPending]_vars

\* C38: available_descriptors returns true exactly when the available
\* ring's idx differs from the used ring's idx as 16-bit wrapping counters,
\* also after avail.idx has wrapped past 65535 while used.idx has not.
C38_AvailableDescriptors ==
    (last.op = "available_descriptors" /\ last.ok)
        => (last.ret <=> ReadU16(mem, q.avail_ring + 2) # ReadU16(mem, q.used_ring + 2))

---------------------------------------------------------------------------
(* IOWIN accesses under every value of IOREGSEL.                           *)

\* the 32-bit value latched in IOREGSEL is a defined register index: 0x00,
\* 0x01, 0x02 or 0x10..0x3F
DefinedSelector(sel) ==
    /\ sel \subseteq 0..7
    /\ ToNat(sel) \in {IOAPIC_REG_ID, IOAPIC_REG_VERSION, IOAPIC_REG_ARBITRATION_ID}
                      \cup IOWIN_OFF..REG_MAX_OFFSET

\* C39: an IOWIN access acts on a register only when the full 32-bit value
\* latched in IOREGSEL is a defined register index: for every other value,
\* those above 0xFF whose low byte is a defined index included, an IOWIN
\* read returns 0 and an IOWIN write changes neither the ID nor any
\* redirection-table entry.
C39_UndefinedSelectors ==
    [][ ( /\ last'.op \in {"read", "write"}
          /\ last'.offset = IOWIN_OFF /\ last'.len = 4
          /\ ~DefinedSelector(ioapic.reg_sel) )
        => IF last'.op = "read" THEN last'.data = {}
           ELSE ioapic'.id = ioapic.id /\ ioapic'.reg_entries = ioapic.reg_entries
      ]_vars

---------------------------------------------------------------------------
(* The width each MOV handler moves.                                       *)

\* the width of a destination operand: a register's own width, and for a
\* memory operand the width the handler's name gives it
DestinationWidth(insn) ==
    IF insn.op0.kind = "reg" THEN Registers[insn.op0.reg].w
    ELSE MovHandlers[insn.handler].dstw

\* C40: every MOV handler moves a value whose width W equals the width of
\* its destination operand and uses the same W to fetch operand 1 and to
\* store operand 0 (1 byte for r8/rm8 destinations, 2 for r16/rm16, 4 for
\* r32/rm32, 8 for r64/rm64), for all sixteen handlers, Mov_rm64_imm32
\* included: after a successful emulate the destination holds, in all W of
\* its bytes, operand 1 fetched as a W-byte value.
C40_WidthIsDestinationWidth ==
    [][ (last'.op = "emulate" /\ last'.ret = "Ok") =>
          LET insn == last'.insn
              W == DestinationWidth(insn)
              fetched == GetOp(insn.op1, W, cpu, mem).value
          IN  /\ insn.op0.kind = "reg" => ReadReg(cpu', insn.op0.reg) = fetched
              /\ insn.op0.kind = "mem" =>
                    \A k \in 1..W :
                       MemByte(mem', MemoryOperandAddress(insn.op0, cpu) + k - 1) = fetched[k]
      ]_vars

=============================================================================
